---- MODULE Spec2Model ----
\* A model of the audio pipeline of the planets game: the Mixer of
\* src/audio/mix.rs (owned by the audio thread), the lock-guarded Mixer of
\* src/audio/mixer.rs (shared between threads) and the RealSink / AudioThread
\* pair of src/audio/sink.rs.
EXTENDS Integers, Sequences, FiniteSets, TLC

\* ---------------------------------------------------------------- bounds

\* Sources constructed in one run.
MaxSources == 3
\* Samples held by one source.
MaxLen == 2
\* Commands waiting in the channel between RealSink and AudioThread.
MaxQueue == 2
\* Slots of one output buffer handed to the callback.
MaxBuf == 2
\* Callback invocations by the host audio loop in one run.
MaxCallbacks == 2

\* ---------------------------------------------------------------- values

\* Option::None of an entry's name.
None == "none"
Names == {"x", "y"}
OptNames == Names \cup {None}

\* Amplitudes of the samples the sources emit; 0 is equilibrium.
Amps == {0, 1}
equilibrium == 0

\* The sample sequences a source may hold: a constant amplitude for 0..MaxLen
\* samples.
Signals == {[i \in 1..n |-> a] : a \in Amps, n \in 0..MaxLen}

\* The signals of amplitude 1 throughout, exhausted one included.
Loud == {d \in Signals : \A i \in 1..Len(d) : d[i] = 1}

SourceIds == 1..MaxSources

VARIABLES
    mixer,      \* Mixer.0: the Vec of (name, signal) entries; a signal is its
                \* identity and the samples it has left
    nextId,     \* identity given to the next source a caller constructs
    thread,     \* position of the thread that drives the Mixer
    panic,      \* where that thread panicked: "none" while it has not
    ret,        \* the value the last completed Mixer::next returned
    swept,      \* the collection as the last sweep of Mixer::next left it
    call,       \* the last Mixer / Sink operation, its arguments and the
                \* collection it was applied to
    pulls,      \* history: samples pulled so far from each source
    queue,      \* the mpsc channel from RealSink to AudioThread
    format,     \* Format.data_type of the output stream
    buffer,     \* the output buffer of the callback invocation under way
    cursor,     \* slots of buffer that invocation has written
    delivered,  \* history: the slots of the buffers handed back to the host
    produced,   \* history: the frames Mixer::next has returned
    applied,    \* history: the sources of the commands applied, in order
    startSent,  \* commands sent before the invocation under way began
    callbacks,  \* callback invocations so far
    single,     \* history: per name, the source last played as a singleton
    poisoned,   \* mixer.rs: the Mutex around the entries is poisoned
    control,    \* mixer.rs: the control thread, "ok" until it panics
    idx,        \* mixer.rs: i of the pull loop of the next under way
    accum,      \* mixer.rs: accum of the next under way
    survivors,  \* history: the sources the sweep of the last next left
    pulled,     \* history: the sources the last next pulled from, in order
    source,     \* source.rs: the Source under construction or being pulled
    outputs,    \* history: what each Source::next so far returned
    built,      \* history: the builder calls applied to source, in order
    srcState,   \* "ok" until a builder call panics
    sink,       \* sink.rs: the Sink AudioThread::start returned, "none" before
    host,       \* sink.rs: what the audio host answers to AudioThread::spawn
    calls,      \* history: the calls made on the DummySink and their results
    retained,   \* the signals the DummySink still holds
    SETUP_HOOK, \* util.rs: the static flag of IntentionalPanic::setup_hook
    hook,       \* the process-wide panic hook: the hook at the bottom and the
                \* closures of setup_hook wrapped around it, innermost first
    pc,         \* window.rs: position of each window thread
    original_hook, \* the local original_hook of each thread in setup_hook
    closed,     \* window.rs: WindowEvents.closed of each window
    audio,      \* sink.rs: the audio thread and the slots its callback
                \* invocation under way has still to fill
    reports,    \* history: the panics so far, the hook in force at each and
                \* the hook that reported it
    takes,      \* history: the hooks panic::take_hook returned, in order
    resize_to,  \* window.rs: WindowEvents.resize_to of each window
    dpi_factor, \* window.rs: WindowEvents.dpi_factor of each window
    via,        \* whether each window thread runs under WindowThread::with
                \* or WindowThread::spawn
    caller,     \* how WindowThread::with ended for its caller
    stored,     \* history: the sizes stored in resize_to, per window
    polled,     \* history: what each resize_to() call returned, per window
    qcall,      \* queues.rs, util.rs: the call under way and its arguments
    qret,       \* what that call returned, <<>> before it returns
    state_map,  \* input.rs: KeyState.state_map, the Input of each slot
    state,      \* input.rs: KeyState.state, one bit per slot
    old_state,  \* input.rs: KeyState.old_state, one bit per slot
    binder,     \* each thread that binds and drops an InputBinding
    setter,     \* the window thread, which calls KeyState::set
    updater,    \* the main thread, which calls KeyState::update
    since       \* history: state was written since the last load of update

mixerVars == <<mixer, nextId, thread, panic, ret, swept, call, pulls>>
sinkVars == <<queue, format, buffer, cursor, delivered, produced, applied,
              startSent, callbacks, single>>
sharedVars == <<poisoned, control, idx, accum, survivors, pulled>>
sourceVars == <<source, outputs, built, srcState>>
startVars == <<sink, host, calls, retained>>
procVars == <<SETUP_HOOK, hook, pc, original_hook, closed, audio, reports,
              takes>>
winVars == <<resize_to, dpi_factor, via, caller, stored, polled>>
queueVars == <<qcall, qret>>
keyVars == <<state_map, state, old_state, binder, setter, updater, since>>
lateVars == <<winVars, queueVars, keyVars>>
restVars == <<sourceVars, startVars, procVars, lateVars>>
vars == <<mixerVars, sinkVars, sharedVars, restVars>>

\* ---------------------------------------------------------------- Vec helpers

\* Vec::swap_remove(i), i counted from 0: the last element takes the place
\* of element i and the vector is truncated by one.
swap_remove(vec, i) ==
    LET n == Len(vec)
    IN  [j \in 1..(n - 1) |-> IF j = i + 1 THEN vec[n] ELSE vec[j]]

\* Signal::is_exhausted of an entry's signal.
is_exhausted(e) == e.data = <<>>

\* The two closures handed to swap_retain: Mixer::next keeps the entries
\* whose signal is not exhausted, Mixer::remove those whose name differs
\* from Some(name).
KeepLive == [kind |-> "live", name |-> None]
KeepNot(name) == [kind |-> "name", name |-> name]
Keep(f, e) ==
    IF f.kind = "live" THEN ~is_exhausted(e) ELSE e.name # f.name

\* swap_retain: the loop runs i over 0..vec.len() as it was on entry;
\* vec[i] panics once i has reached the current length.
RECURSIVE swap_retain_loop(_, _, _, _)
swap_retain_loop(vec, i, n, f) ==
    IF i >= n THEN [vec |-> vec, panic |-> FALSE]
    ELSE IF i >= Len(vec) THEN [vec |-> vec, panic |-> TRUE]
    ELSE IF ~Keep(f, vec[i + 1])
         THEN swap_retain_loop(swap_remove(vec, i), i + 1, n, f)
         ELSE swap_retain_loop(vec, i + 1, n, f)

swap_retain(vec, f) == swap_retain_loop(vec, 0, Len(vec), f)

\* ---------------------------------------------------------------- Mixer (mix.rs)

NewEntry(name, id, data) == [name |-> name, id |-> id, data |-> data]

\* Mixer::add: push.
MixerAdd(m, name, id, data) == Append(m, NewEntry(name, id, data))

\* Mixer::remove.
MixerRemove(m, name) == swap_retain(m, KeepNot(name))

\* Signal::next of one entry: the frame it yields, and the entry afterwards.
\* An exhausted signal yields equilibrium and stays exhausted.
signal_frame(e) == IF is_exhausted(e) THEN equilibrium ELSE Head(e.data)
signal_advance(e) ==
    IF is_exhausted(e) THEN e ELSE [e EXCEPT !.data = Tail(e.data)]

\* The fold of Mixer::next: add_amp of one frame of every entry, in vector
\* order, started from f.
RECURSIVE fold_add_amp(_, _)
fold_add_amp(vec, f) ==
    IF vec = <<>> THEN f
    ELSE fold_add_amp(Tail(vec), f + signal_frame(Head(vec)))

\* Every entry after the fold has pulled from it.
pull_all(vec) == [j \in 1..Len(vec) |-> signal_advance(vec[j])]

\* The history of pulls after one pull from every entry of vec.
count_pulls(p, vec) ==
    [id \in SourceIds |->
        p[id] + Cardinality({j \in 1..Len(vec) : vec[j].id = id})]

\* ---------------------------------------------------------------- SpecMixer
\* The Mixer of mix.rs driven through its public interface by its owner.

NoCall == [op |-> "new", name |-> None, id |-> 0, pre |-> <<>>, prev |-> 0]
Called(op, name, id, pre) ==
    [op |-> op, name |-> name, id |-> id, pre |-> pre, prev |-> 0]

\* The lock-guarded Mixer of mixer.rs is not part of this specification.
NoShared ==
    /\ poisoned = FALSE
    /\ control = "ok"
    /\ idx = 0
    /\ accum = equilibrium
    /\ survivors = {}
    /\ pulled = <<>>

\* No Source is built or pulled in this specification.
NoSource ==
    /\ source = [reader |-> "none"]
    /\ outputs = <<>>
    /\ built = <<>>
    /\ srcState = "ok"

\* AudioThread::start and the DummySink are not part of this specification.
NoStart ==
    /\ sink = [kind |-> "none"]
    /\ host = [device |-> FALSE, supported |-> [ok |-> FALSE, formats |-> <<>>],
               default |-> <<>>, build |-> FALSE]
    /\ calls = <<>>
    /\ retained = <<>>

\* The panic hook and the window and audio threads are not part of this
\* specification.
NoProc ==
    /\ SETUP_HOOK = FALSE
    /\ hook = <<"default">>
    /\ pc = <<>>
    /\ original_hook = <<>>
    /\ closed = <<>>
    /\ audio = [state |-> "none", left |-> 0]
    /\ reports = <<>>
    /\ takes = <<>>

\* No window is part of this specification.
NoWin ==
    /\ resize_to = <<>>
    /\ dpi_factor = <<>>
    /\ via = <<>>
    /\ caller = <<>>
    /\ stored = <<>>
    /\ polled = <<>>

\* No queue selection is part of this specification.
NoQueue ==
    /\ qcall = <<>>
    /\ qret = <<>>

\* No KeyState is part of this specification.
NoKeys ==
    /\ state_map = <<>>
    /\ state = 0
    /\ old_state = 0
    /\ binder = <<>>
    /\ setter = <<>>
    /\ updater = <<>>
    /\ since = FALSE

NoLate == NoWin /\ NoQueue /\ NoKeys

NoRest == NoSource /\ NoStart /\ NoProc /\ NoLate

\* The sink is not part of this specification.
NoSink ==
    /\ queue = <<>>
    /\ format = "F32"
    /\ buffer = <<>>
    /\ cursor = 0
    /\ delivered = <<>>
    /\ produced = <<>>
    /\ applied = <<>>
    /\ startSent = 0
    /\ callbacks = 0
    /\ single = [n \in Names |-> 0]

InitMixer ==
    /\ mixer = <<>>
    /\ nextId = 1
    /\ thread = "idle"
    /\ panic = "none"
    /\ ret = equilibrium
    /\ swept = <<>>
    /\ call = NoCall
    /\ pulls = [id \in SourceIds |-> 0]
    /\ NoSink
    /\ NoShared
    /\ NoRest

\* mixer.add(name, signal)
Add(name, data) ==
    /\ thread = "idle"
    /\ nextId <= MaxSources
    /\ mixer' = MixerAdd(mixer, name, nextId, data)
    /\ nextId' = nextId + 1
    /\ call' = Called("add", name, nextId, mixer)
    /\ UNCHANGED <<thread, panic, ret, swept, pulls, sinkVars>>
    /\ UNCHANGED <<sharedVars, restVars>>

\* mixer.remove(name)
Remove(name) ==
    /\ thread = "idle"
    /\ LET r == MixerRemove(mixer, name)
       IN  /\ mixer' = r.vec
           /\ thread' = IF r.panic THEN "dead" ELSE "idle"
           /\ panic' = IF r.panic THEN "remove" ELSE "none"
    /\ call' = Called("remove", name, 0, mixer)
    /\ UNCHANGED <<nextId, ret, swept, pulls, sinkVars>>
    /\ UNCHANGED <<sharedVars, restVars>>

\* mixer.next(): the sweep, then the fold over what the sweep left.
Next_(m) ==
    LET s == swap_retain(m, KeepLive)
    IN  IF s.panic
        THEN [vec |-> s.vec, swept |-> s.vec, panic |-> TRUE,
              frame |-> equilibrium, pulled |-> <<>>]
        ELSE [vec |-> pull_all(s.vec), swept |-> s.vec, panic |-> FALSE,
              frame |-> fold_add_amp(s.vec, equilibrium), pulled |-> s.vec]

MixerNext ==
    /\ thread = "idle"
    /\ LET r == Next_(mixer)
       IN  /\ mixer' = r.vec
           /\ swept' = r.swept
           /\ thread' = IF r.panic THEN "dead" ELSE "idle"
           /\ panic' = IF r.panic THEN "sweep" ELSE "none"
           /\ ret' = IF r.panic THEN ret ELSE r.frame
           /\ pulls' = count_pulls(pulls, r.pulled)
    /\ call' = Called("next", None, 0, mixer)
    /\ UNCHANGED <<nextId, sinkVars>>
    /\ UNCHANGED <<sharedVars, restVars>>

NextMixer ==
    \/ \E name \in OptNames, data \in Signals : Add(name, data)
    \/ \E name \in Names : Remove(name)
    \/ MixerNext

SpecMixer == InitMixer /\ [][NextMixer]_vars

\* ---------------------------------------------------------------- C1..C5
\* What the claims speak of, stated on the collection itself.

Entries(vec) == {vec[j] : j \in 1..Len(vec)}
Live(vec) == {e \in Entries(vec) : ~is_exhausted(e)}

RECURSIVE SumFrames(_)
SumFrames(S) ==
    IF S = {} THEN 0
    ELSE LET e == CHOOSE x \in S : TRUE
         IN  Head(e.data) + SumFrames(S \ {e})

\* Each entry of S one sample further.
Advanced(S) == {[e EXCEPT !.data = Tail(e.data)] : e \in S}

\* C1: in Mixer::next, once the sweep has run, no entry whose signal is
\* exhausted is left in the collection, wherever the exhausted entries sat.
C1_SweepLeavesNoExhausted ==
    call.op = "next" => \A j \in 1..Len(swept) : ~is_exhausted(swept[j])

\* C2: Mixer::next returns the sum, started from equilibrium, of one sample of
\* every entry that is not exhausted, and leaves each of them one sample
\* further.
C2_NextSumsLiveEntries ==
    call.op = "next" =>
        /\ panic = "none"
        /\ ret = SumFrames(Live(call.pre))
        /\ Entries(mixer) = Advanced(Live(call.pre))
        /\ Len(mixer) = Cardinality(Live(call.pre))

\* C3: Mixer::next on a collection that is empty, or holds exhausted entries
\* only, returns equilibrium and does not fail.
C3_NextOnAllExhaustedIsSilent ==
    (call.op = "next" /\ Live(call.pre) = {}) =>
        (panic = "none" /\ ret = equilibrium)

\* C4: the eviction of Mixer::next never removes or skips an entry that is
\* not exhausted: after the call every such entry is still in the collection
\* and has been pulled from exactly once more than before it.
C4_EvictionSparesLiveEntries ==
    call.op = "next" =>
        \A e \in Live(call.pre) :
            \E j \in 1..Len(mixer) :
                /\ mixer[j].id = e.id
                /\ Len(mixer[j].data) = Len(e.data) - 1

\* C5: Mixer::remove(name) does not fail and leaves exactly the entries whose
\* name is not name: every entry named name is gone, every other entry and
\* every unnamed one is still there.
C5_RemoveDropsExactlyTheNamed ==
    call.op = "remove" =>
        /\ panic = "none"
        /\ Entries(mixer) = {e \in Entries(call.pre) : e.name # call.name}
        /\ Len(mixer) = Cardinality(Entries(mixer))

\* ---------------------------------------------------------------- Sink (sink.rs)
\* RealSink on the control threads, AudioThread on the audio thread, the
\* channel between them, and the Mixer of mix.rs owned by AudioThread.

Formats == {"U16", "I16", "F32"}
\* A slot of an output buffer: what the host handed over, or a sample.
Unwritten == [written |-> FALSE, sample |-> 0]
Slot(v) == [written |-> TRUE, sample |-> v]

Clamp(v, lo, hi) == IF v < lo THEN lo ELSE IF v > hi THEN hi ELSE v

\* ToSample of a canonical (floating point) sample into the buffer's sample
\* type: F32 keeps the amplitude, I16 scales it to 16 bits around 0 and U16
\* to 16 bits around 32768, both saturating.
to_sample(fmt, v) ==
    IF fmt = "F32" THEN v
    ELSE IF fmt = "I16" THEN Clamp(v * 32768, -32768, 32767)
    ELSE Clamp((v + 1) * 32768, 0, 65535)

\* AudioCommand::Play / AudioCommand::PlaySingleton
AudioCommand(kind, name, id, data) ==
    [kind |-> kind, name |-> name, id |-> id, data |-> data]

\* Sender::send: the command is queued unless the receiver is gone.
send(q, cmd) == IF thread = "dead" THEN q ELSE Append(q, cmd)

\* RealSink::play
Play(name, data) ==
    /\ nextId <= MaxSources
    /\ Len(queue) < MaxQueue
    /\ queue' = send(queue, AudioCommand("Play", name, nextId, data))
    /\ nextId' = nextId + 1
    /\ UNCHANGED <<mixer, thread, panic, ret, swept, call, pulls, format,
                   buffer, cursor, delivered, produced, applied, startSent,
                   callbacks, single>>
    /\ UNCHANGED <<sharedVars, restVars>>

\* RealSink::play_singleton
PlaySingleton(name, data) ==
    /\ nextId <= MaxSources
    /\ Len(queue) < MaxQueue
    /\ queue' = send(queue, AudioCommand("PlaySingleton", name, nextId, data))
    /\ nextId' = nextId + 1
    /\ UNCHANGED <<mixer, thread, panic, ret, swept, call, pulls, format,
                   buffer, cursor, delivered, produced, applied, startSent,
                   callbacks, single>>
    /\ UNCHANGED <<sharedVars, restVars>>

\* The host audio loop invokes AudioThread::callback with a buffer of n
\* slots (output) or with data that is no output buffer.
CallbackBegin(n, output) ==
    /\ thread = "idle"
    /\ callbacks < MaxCallbacks
    /\ callbacks' = callbacks + 1
    /\ thread' = "commands"
    /\ buffer' = IF output THEN [i \in 1..n |-> Unwritten] ELSE <<>>
    /\ cursor' = 0
    /\ startSent' = nextId - 1
    /\ UNCHANGED <<mixer, nextId, panic, ret, swept, call, pulls, queue,
                   format, delivered, produced, applied, single>>
    /\ UNCHANGED <<sharedVars, restVars>>

\* One arm of the match of process_commands applied to the mixer.
apply_command(m, cmd) ==
    IF cmd.kind = "Play"
    THEN [vec |-> MixerAdd(m, cmd.name, cmd.id, cmd.data), panic |-> FALSE]
    ELSE LET r == MixerRemove(m, cmd.name)
         IN  IF r.panic THEN r
             ELSE [vec |-> MixerAdd(r.vec, cmd.name, cmd.id, cmd.data),
                   panic |-> FALSE]

\* process_commands: one iteration of the loop over receiver.try_iter().
ProcessCommand ==
    /\ thread = "commands"
    /\ queue # <<>>
    /\ LET cmd == Head(queue)
           r == apply_command(mixer, cmd)
           single_ == cmd.kind = "PlaySingleton"
       IN  /\ queue' = Tail(queue)
           /\ mixer' = r.vec
           /\ thread' = IF r.panic THEN "dead" ELSE "commands"
           /\ panic' = IF r.panic THEN "remove" ELSE "none"
           /\ applied' = IF r.panic THEN applied ELSE Append(applied, cmd.id)
           /\ call' = [op |-> IF single_ THEN "play_singleton" ELSE "play",
                       name |-> cmd.name, id |-> cmd.id, pre |-> mixer,
                       prev |-> IF single_ THEN single[cmd.name] ELSE 0]
           /\ single' = IF single_ THEN [single EXCEPT ![cmd.name] = cmd.id]
                        ELSE single
    /\ UNCHANGED <<nextId, ret, swept, pulls, format, buffer, cursor,
                   delivered, produced, startSent, callbacks>>
    /\ UNCHANGED <<sharedVars, restVars>>

\* process_commands: try_iter() has nothing left; callback goes on to its
\* match on data, which fills an output buffer and ignores anything else.
ProcessDone ==
    /\ thread = "commands"
    /\ queue = <<>>
    /\ thread' = IF buffer = <<>> THEN "idle" ELSE "fill"
    /\ UNCHANGED <<mixer, nextId, panic, ret, swept, call, pulls, queue,
                   format, buffer, cursor, delivered, produced, applied,
                   startSent, callbacks, single>>
    /\ UNCHANGED <<sharedVars, restVars>>

\* (mutant) every iteration assigns the first slot.
write_slot_first(buf, i, v) == [buf EXCEPT ![1] = Slot(v)]

\* The slot of buf that the iteration numbered i (from 0) of the loop of
\* fill_stream_buffer assigns.
write_slot(buf, i, v) == [buf EXCEPT ![i + 1] = Slot(v)]

\* fill_stream_buffer: one iteration of the loop over the slots; the callback
\* returns after the last one and the host takes the buffer.
FillSlot ==
    /\ thread = "fill"
    /\ LET r == Next_(mixer)
           b == write_slot(buffer, cursor, to_sample(format, r.frame))
           last == cursor + 1 = Len(buffer)
       IN  /\ mixer' = r.vec
           /\ swept' = r.swept
           /\ pulls' = count_pulls(pulls, r.pulled)
           /\ IF r.panic
              THEN /\ thread' = "dead"
                   /\ panic' = "sweep"
                   /\ UNCHANGED <<ret, buffer, cursor, delivered, produced>>
              ELSE /\ thread' = IF last THEN "idle" ELSE "fill"
                   /\ panic' = "none"
                   /\ ret' = r.frame
                   /\ produced' = Append(produced, r.frame)
                   /\ buffer' = IF last THEN <<>> ELSE b
                   /\ cursor' = IF last THEN 0 ELSE cursor + 1
                   /\ delivered' = IF last THEN delivered \o b ELSE delivered
    /\ call' = Called("next", None, 0, mixer)
    /\ UNCHANGED <<nextId, queue, format, applied, startSent, callbacks,
                   single>>
    /\ UNCHANGED <<sharedVars, restVars>>

Init ==
    /\ mixer = <<>>
    /\ nextId = 1
    /\ thread = "idle"
    /\ panic = "none"
    /\ ret = equilibrium
    /\ swept = <<>>
    /\ call = NoCall
    /\ pulls = [id \in SourceIds |-> 0]
    /\ queue = <<>>
    /\ format \in Formats
    /\ buffer = <<>>
    /\ cursor = 0
    /\ delivered = <<>>
    /\ produced = <<>>
    /\ applied = <<>>
    /\ startSent = 0
    /\ callbacks = 0
    /\ single = [n \in Names |-> 0]
    /\ NoShared
    /\ NoRest

Next ==
    \/ \E name \in {None, "x"}, data \in Loud : Play(name, data)
    \/ \E data \in Loud : PlaySingleton("x", data)
    \/ \E n \in 1..MaxBuf, output \in BOOLEAN : CallbackBegin(n, output)
    \/ ProcessCommand
    \/ ProcessDone
    \/ FillSlot

Spec == Init /\ [][Next]_vars

\* The same sink when the control threads only ever call play(None, ..).
NextFill ==
    \/ \E data \in Loud : Play(None, data)
    \/ \E n \in 1..MaxBuf, output \in BOOLEAN : CallbackBegin(n, output)
    \/ ProcessCommand
    \/ ProcessDone
    \/ FillSlot

SpecFill == Init /\ [][NextFill]_vars

\* ---------------------------------------------------------------- C6, C7, C9, C10

Named(vec, n) == {j \in 1..Len(vec) : vec[j].name = n}

\* C6: once play_singleton(x, sB) has been applied after an earlier
\* play_singleton(x, sA), whatever else the mixer holds, the audio thread is
\* alive, exactly one entry is named x, it holds sB, and sA is no longer in
\* the collection for any later Mixer::next to pull.
C6_SecondSingletonReplacesFirst ==
    (call.op = "play_singleton" /\ call.prev # 0) =>
        /\ panic = "none"
        /\ Cardinality(Named(mixer, call.name)) = 1
        /\ \A j \in Named(mixer, call.name) : mixer[j].id = call.id
        /\ \A j \in 1..Len(mixer) : mixer[j].id # call.prev

\* C7: right after a play_singleton(n, s) has been applied the mixer holds at
\* most one entry named n, however many entries named n earlier play
\* commands had added.
C7_SingletonLeavesOneEntryPerName ==
    call.op = "play_singleton" =>
        /\ panic = "none"
        /\ Cardinality(Named(mixer, call.name)) <= 1

\* C9: once a callback invocation is past process_commands, every command
\* sent before the invocation began has been applied, in the order sent, so
\* its source is in the mix by that invocation.
C9_PendingCommandsAppliedByInvocation ==
    thread # "commands" =>
        /\ Len(applied) >= startSent
        /\ \A k \in 1..Len(applied) : applied[k] = k

\* The slots written so far, in the order the host receives them.
Stream == delivered \o SubSeq(buffer, 1, cursor)

\* C10: the k-th slot written, counted across invocations, holds the
\* conversion of the k-th frame Mixer::next returned, and within a buffer the
\* slots are written in slot order: nothing is dropped, repeated or reordered.
C10_SlotsHoldMixerFramesInOrder ==
    /\ Len(Stream) = Len(produced)
    /\ \A k \in 1..Len(produced) :
        Stream[k] = Slot(to_sample(format, produced[k]))
    /\ \A i \in (cursor + 1)..Len(buffer) : buffer[i] = Unwritten

\* Two invocations have returned, three slots or more were handed over and
\* the mixer's frames were not all the same.
C10_Witness ==
    /\ thread = "idle"
    /\ callbacks = 2
    /\ Len(delivered) >= 3
    /\ \E j, k \in 1..Len(produced) : produced[j] # produced[k]

\* ---------------------------------------------------------------- Mixer (mixer.rs)
\* The Mixer whose entries sit behind Arc<Mutex<..>>: a control thread calls
\* add and remove, the audio thread calls next. Every lock() is one atomic
\* step; a panic while the guard is held poisons the Mutex, and lock().unwrap()
\* on a poisoned Mutex panics.

\* Iterator::next of the Peekable source of entry e, an Option: <<>> is None,
\* <<v>> is Some(v).
source_next(e) == IF is_exhausted(e) THEN <<>> ELSE <<Head(e.data)>>

InitShared ==
    /\ mixer = <<>>
    /\ nextId = 1
    /\ thread = "idle"
    /\ panic = "none"
    /\ ret = equilibrium
    /\ swept = <<>>
    /\ call = NoCall
    /\ pulls = [id \in SourceIds |-> 0]
    /\ NoSink
    /\ NoShared
    /\ NoRest

\* Mixer::add on the control thread.
SharedAdd(name, data) ==
    /\ control = "ok"
    /\ nextId <= MaxSources
    /\ nextId' = nextId + 1
    /\ IF poisoned
       THEN control' = "dead" /\ UNCHANGED mixer
       ELSE mixer' = MixerAdd(mixer, name, nextId, data) /\ UNCHANGED control
    /\ call' = Called("add", name, nextId, mixer)
    /\ UNCHANGED <<thread, panic, ret, swept, pulls, sinkVars, restVars, poisoned, idx,
                   accum, survivors, pulled>>

\* Mixer::remove on the control thread.
SharedRemove(name) ==
    /\ control = "ok"
    /\ IF poisoned
       THEN control' = "dead" /\ UNCHANGED <<mixer, poisoned>>
       ELSE LET r == MixerRemove(mixer, name)
            IN  /\ mixer' = r.vec
                /\ poisoned' = r.panic
                /\ control' = IF r.panic THEN "dead" ELSE "ok"
    /\ call' = Called("remove", name, 0, mixer)
    /\ UNCHANGED <<nextId, thread, panic, ret, swept, pulls, sinkVars, restVars, idx,
                   accum, survivors, pulled>>

\* Mixer::next on the audio thread, first statement: the sweep under the lock.
SharedNextSweep ==
    /\ thread = "idle"
    /\ IF poisoned
       THEN /\ thread' = "dead"
            /\ panic' = "lock"
            /\ UNCHANGED <<mixer, swept, poisoned, idx, accum, survivors,
                           pulled>>
       ELSE LET r == swap_retain(mixer, KeepLive)
            IN  /\ mixer' = r.vec
                /\ swept' = r.vec
                /\ poisoned' = r.panic
                /\ thread' = IF r.panic THEN "dead" ELSE "pull"
                /\ panic' = IF r.panic THEN "sweep" ELSE "none"
                /\ idx' = 0
                /\ accum' = equilibrium
                /\ survivors' = {r.vec[j].id : j \in 1..Len(r.vec)}
                /\ pulled' = <<>>
    /\ call' = Called("next", None, 0, mixer)
    /\ UNCHANGED <<nextId, ret, pulls, sinkVars, restVars, control>>

\* Mixer::next, one turn of the while let loop: the lock is taken anew,
\* get_mut(i) is looked at, and entry i, if there is one, is pulled from.
SharedNextPull ==
    /\ thread = "pull"
    /\ IF poisoned
       THEN /\ thread' = "dead"
            /\ panic' = "lock"
            /\ UNCHANGED <<mixer, ret, pulls, poisoned, idx, accum, pulled>>
       ELSE IF idx >= Len(mixer)
       THEN /\ thread' = "idle"
            /\ ret' = accum
            /\ UNCHANGED <<mixer, panic, pulls, poisoned, idx, accum, pulled>>
       ELSE LET e == mixer[idx + 1]
            IN  IF source_next(e) = <<>>
                THEN /\ thread' = "dead"
                     /\ panic' = "unwrap"
                     /\ poisoned' = TRUE
                     /\ UNCHANGED <<mixer, ret, pulls, idx, accum, pulled>>
                ELSE /\ accum' = accum + source_next(e)[1]
                     /\ mixer' = [mixer EXCEPT ![idx + 1] = signal_advance(e)]
                     /\ idx' = idx + 1
                     /\ pulls' = count_pulls(pulls, <<e>>)
                     /\ pulled' = Append(pulled, e.id)
                     /\ UNCHANGED <<thread, panic, ret, poisoned>>
    /\ UNCHANGED <<nextId, swept, call, sinkVars, restVars, control, survivors>>

NextShared ==
    \/ \E name \in OptNames, data \in Loud : SharedAdd(name, data)
    \/ \E name \in Names : SharedRemove(name)
    \/ SharedNextSweep
    \/ SharedNextPull

SpecShared == InitShared /\ [][NextShared]_vars

\* ---------------------------------------------------------------- C8

\* C8: the sweep and the pulls of one Mixer::next are one critical section:
\* when the call returns it has pulled from exactly the entries its sweep
\* left, once each, whatever add and remove calls ran on other threads
\* meanwhile.
C8_NextPullsExactlyTheSweepSurvivors ==
    thread = "idle" =>
        /\ {pulled[k] : k \in 1..Len(pulled)} = survivors
        /\ Len(pulled) = Cardinality(survivors)

\* ---------------------------------------------------------------- Source
\* The Source of src/audio/source.rs: a pull-based sample iterator that is
\* either a decoder (Wav, Ogg), a boxed iterator, or a stage wrapped around
\* another Source.  An Option is a sequence: <<>> is None, <<v>> is Some(v).

\* Samples held by one decoder or iterator.
MaxData == 3
\* Packets of one Ogg stream, the one from_ogg reads included.
MaxPackets == 3
\* Builder calls (chain, with_channels, with_sample_rate, canonicalize)
\* applied to one Source.
MaxStages == 2
\* Pulls made on one Source: enough to drain two chained decoders and to see
\* what follows the first None.
MaxPulls == 2 * MaxData + 2

\* Sample rates, in an abstract unit.
Rates == {1, 2}
\* enum Channels.
Layouts == {"Mono", "Stereo"}
ChannelCount(channels) == IF channels = "Mono" THEN 1 ELSE 2

\* (mutant) every channel count converts: more than one channel is Stereo.
TryChannels_any(t) ==
    IF t = <<>> THEN <<>> ELSE IF t[1] >= 2 THEN <<"Stereo">> ELSE <<"Mono">>

\* TryInto<Channels> of an optional channel count: only 1 and 2 convert.
TryChannels(t) ==
    IF t = <<>> THEN <<>>
    ELSE IF t[1] = 1 THEN <<"Mono">>
    ELSE IF t[1] = 2 THEN <<"Stereo">>
    ELSE <<>>

\* TryInto<NonZeroU32> of an optional rate: 0 does not convert.
TryNonZero(t) == IF t = <<>> THEN <<>> ELSE IF t[1] = 0 THEN <<>> ELSE t

\* The samples base+1, .., base+n: pairwise distinct, so that order, loss and
\* duplication of samples are visible in what a Source yields.
Ramp(base, n) == [i \in 1..n |-> base + i]

\* The packet sequences of an Ogg stream: 1..MaxPackets packets of zero or one
\* sample each, the samples numbered base+1, base+2, .. in stream order.
PacketSeqs(base) ==
    UNION {{[i \in 1..n |->
                IF l[i] = 0 THEN <<>>
                ELSE <<base + Cardinality({j \in 1..i : l[j] = 1})>>] :
            l \in [1..n -> {0, 1}]} : n \in 1..MaxPackets}

\* Source::from_wav: the decoder holds the samples not read yet.
from_wav(data, sample_rate, channels) ==
    [reader |-> "Wav", data |-> data,
     sample_rate |-> sample_rate, channels |-> channels]

\* Source::from_ogg: the first packet is decoded at once and becomes the
\* pending chunk; the later packets stay in the stream reader.
from_ogg(packets, sample_rate, channels) ==
    [reader |-> "Ogg", packets |-> Tail(packets), chunk |-> <<Head(packets)>>,
     sample_rate |-> sample_rate, channels |-> channels]

\* Source::from_iterator.
from_iterator(iterator, sample_rate, channels) ==
    [reader |-> "Iterator", iterator |-> iterator,
     sample_rate |-> sample_rate, channels |-> channels]

\* A vec::IntoIter handed to from_iterator.
VecIter(data) == [it |-> "Vec", data |-> data]

\* Iterator::chain(a, b) of the standard library: a is polled until its
\* first None and never again, then b is polled.
ChainIter_swapped(a, b) == [it |-> "Chain", a |-> b, b |-> a, state |-> "Both"]
ChainIter(a, b) == [it |-> "Chain", a |-> a, b |-> b, state |-> "Both"]

\* Sample::add_amp of the sample format.
add_amp_left(a, b) == a
add_amp(a, b) == a + b

\* F::equilibrium() of a frame of n channels.
EquilibriumFrame(n) == [i \in 1..n |-> equilibrium]

\* The one element of a singleton set: The({e(x) : x \in {v}}) is e(v) with
\* v evaluated once.
The(S) == CHOOSE x \in S : TRUE

RECURSIVE Source_next(_)
RECURSIVE from_samples(_, _)
RECURSIVE converter_advance(_)

\* Frame::from_samples: pulls n samples; None when the source ends first
\* (the samples pulled by then are lost).
from_samples(s, n) ==
    IF n = 0 THEN [src |-> s, frame |-> << <<>> >>]
    ELSE The({
        IF r.out = <<>> THEN [src |-> r.src, frame |-> <<>>]
        ELSE The({[src |-> q.src,
                   frame |-> IF q.frame = <<>> THEN <<>>
                             ELSE << <<r.out[1]>> \o q.frame[1] >>] :
                  q \in {from_samples(r.src, n - 1)}}) :
        r \in {Source_next(s)}})

\* Signal::next of the frame signal the resampler reads: hands out the frame
\* read ahead and reads the next one; equilibrium once the source has ended.
signal_next(c) ==
    IF c.next = <<>>
    THEN [c |-> c, frame |-> EquilibriumFrame(ChannelCount(c.channels))]
    ELSE The({[c |-> [c EXCEPT !.source = r.src, !.next = r.frame],
               frame |-> c.next[1]] :
              r \in {from_samples(c.source, ChannelCount(c.channels))}})

\* The frame-advancing loop of the rate converter: one source frame is fed
\* to the interpolator for each whole step of the interpolation value.
converter_advance(c) ==
    IF c.value >= c.to
    THEN The({converter_advance([r.c EXCEPT !.held = r.frame,
                                            !.value = @ - c.to]) :
              r \in {signal_next(c)}})
    ELSE c

\* One output frame of the rate converter.  The amplitude the interpolator
\* computes is abstracted to the frame it was fed last.
converter_next(c) ==
    The({[c |-> [a EXCEPT !.value = @ + a.from], frame |-> a.held] :
         a \in {converter_advance(c)}})

\* impl Iterator for Source: the Source after the pull and what it returned.
Source_next(s) ==
    CASE s.reader = "Wav" ->
            IF s.data = <<>> THEN [src |-> s, out |-> <<>>]
            ELSE [src |-> [s EXCEPT !.data = Tail(@)],
                  out |-> <<Head(s.data)>>]
      [] s.reader = "Ogg" ->
            IF s.chunk # <<>> /\ s.chunk[1] # <<>>
            THEN [src |-> [s EXCEPT !.chunk = <<Tail(s.chunk[1])>>],
                  out |-> <<Head(s.chunk[1])>>]
            ELSE LET chunk == IF s.packets = <<>> THEN <<>>
                              ELSE <<Head(s.packets)>>
                     rest == IF s.packets = <<>> THEN <<>>
                             ELSE Tail(s.packets)
                 IN IF chunk # <<>> /\ chunk[1] # <<>>
                    THEN [src |-> [s EXCEPT !.packets = rest,
                                            !.chunk = <<Tail(chunk[1])>>],
                          out |-> <<Head(chunk[1])>>]
                    ELSE [src |-> [s EXCEPT !.packets = rest,
                                            !.chunk = chunk],
                          out |-> <<>>]
      [] s.reader = "Iterator" /\ s.iterator.it = "Vec" ->
            IF s.iterator.data = <<>> THEN [src |-> s, out |-> <<>>]
            ELSE [src |-> [s EXCEPT !.iterator.data = Tail(@)],
                  out |-> <<Head(s.iterator.data)>>]
      [] s.reader = "Iterator" /\ s.iterator.it = "Chain" ->
            IF s.iterator.state = "Both"
            THEN The({
                IF r.out # <<>>
                THEN [src |-> [s EXCEPT !.iterator.a = r.src], out |-> r.out]
                ELSE The({[src |-> [s EXCEPT !.iterator.a = r.src,
                                             !.iterator.b = q.src,
                                             !.iterator.state = "Back"],
                           out |-> q.out] :
                          q \in {Source_next(s.iterator.b)}}) :
                r \in {Source_next(s.iterator.a)}})
            ELSE The({[src |-> [s EXCEPT !.iterator.b = q.src],
                       out |-> q.out] :
                      q \in {Source_next(s.iterator.b)}})
      [] s.reader \in {"MonoResampler", "StereoResampler"} ->
            IF s.current # <<>>
            THEN [src |-> [s EXCEPT !.current = Tail(@)],
                  out |-> <<Head(s.current)>>]
            ELSE The({[src |-> [r.c EXCEPT !.current = Tail(r.frame)],
                       out |-> <<Head(r.frame)>>] :
                      r \in {converter_next(s)}})
      [] s.reader = "MonoToStereo" ->
            \* the pattern binds accum by copy: what is assigned to it is
            \* returned and never stored in the Source
            LET accum0 == s.accum IN
            IF accum0 = <<>>
            THEN The({[src |-> [s EXCEPT !.source = r.src], out |-> r.out] :
                      r \in {Source_next(s.source)}})
            ELSE [src |-> s, out |-> accum0]
      [] s.reader = "StereoToMono" ->
            The({
                IF l.out # <<>>
                THEN The({[src |-> [s EXCEPT !.source = r.src],
                           out |-> <<add_amp(l.out[1],
                                             IF r.out = <<>> THEN equilibrium
                                             ELSE r.out[1])>>] :
                          r \in {Source_next(l.src)}})
                ELSE [src |-> [s EXCEPT !.source = l.src], out |-> <<>>] :
                l \in {Source_next(s.source)}})

\* The value of a Source that a panicking builder call consumed.
NoSourceLeft == [reader |-> "none"]

\* Source::chain; ok is FALSE when one of its assertions fails.
chain_rate_only(self, other) ==
    IF self.sample_rate # other.sample_rate
    THEN [ok |-> FALSE, src |-> NoSourceLeft]
    ELSE [ok |-> TRUE,
          src |-> from_iterator(ChainIter(self, other),
                                self.sample_rate, self.channels)]
chain(self, other) ==
    IF self.sample_rate # other.sample_rate
    THEN [ok |-> FALSE, src |-> NoSourceLeft]
    ELSE IF self.channels # other.channels
    THEN [ok |-> FALSE, src |-> NoSourceLeft]
    ELSE [ok |-> TRUE,
          src |-> from_iterator(ChainIter(self, other),
                                self.sample_rate, self.channels)]

\* Source::with_channels.
with_channels_always(self, target) ==
    LET channels == TryChannels(target) IN
    IF channels = <<>> THEN self
    ELSE IF channels[1] = "Stereo"
    THEN [reader |-> "MonoToStereo", source |-> self, accum |-> <<>>,
          sample_rate |-> self.sample_rate, channels |-> channels[1]]
    ELSE [reader |-> "StereoToMono", source |-> self,
          sample_rate |-> self.sample_rate, channels |-> channels[1]]
with_channels(self, target) ==
    LET channels == TryChannels(target) IN
    IF channels = <<>> THEN self
    ELSE IF self.channels = channels[1] THEN self
    ELSE IF self.channels = "Mono"
    THEN [reader |-> "MonoToStereo", source |-> self, accum |-> <<>>,
          sample_rate |-> self.sample_rate, channels |-> channels[1]]
    ELSE [reader |-> "StereoToMono", source |-> self,
          sample_rate |-> self.sample_rate, channels |-> channels[1]]

\* Source::resample_with_interpolator: from_interleaved_samples_iter reads
\* one frame ahead, from_hz_to_hz starts at interpolation value 0 and
\* into_interleaved_samples takes the first converted frame.
resample_with_interpolator(self, new_sample_rate, reader) ==
    The({The({[r.c EXCEPT !.current = r.frame] :
              r \in {converter_next(
                        [reader |-> reader, source |-> first.src,
                         next |-> first.frame,
                         held |-> EquilibriumFrame(ChannelCount(self.channels)),
                         value |-> 0,
                         from |-> self.sample_rate, to |-> new_sample_rate,
                         current |-> <<>>,
                         sample_rate |-> new_sample_rate,
                         channels |-> self.channels])}}) :
         first \in {from_samples(self, ChannelCount(self.channels))}})

\* const HIGH_QUALITY_INTERPOLATION of audio.rs.
HIGH_QUALITY_INTERPOLATION == TRUE

\* Source::into_resampler: the windowed-sinc interpolator starts from a ring
\* buffer of equilibrium frames; the linear one from the first two frames of
\* the source.
into_resampler(self, sample_rate, reader) ==
    IF HIGH_QUALITY_INTERPOLATION
    THEN resample_with_interpolator(self, sample_rate, reader)
    ELSE LET left == from_samples(self, ChannelCount(self.channels))
             right == from_samples(left.src, ChannelCount(self.channels))
         IN IF left.frame = <<>> THEN NoSourceLeft
            ELSE IF right.frame = <<>> THEN NoSourceLeft
            ELSE resample_with_interpolator(right.src, sample_rate, reader)

\* Source::with_sample_rate.
with_sample_rate_always(self, target) ==
    LET sample_rate == TryNonZero(target) IN
    IF sample_rate = <<>> THEN self
    ELSE into_resampler(self, sample_rate[1],
                        IF self.channels = "Mono" THEN "MonoResampler"
                        ELSE "StereoResampler")
with_sample_rate(self, target) ==
    LET sample_rate == TryNonZero(target) IN
    IF sample_rate = <<>> THEN self
    ELSE IF self.sample_rate = sample_rate[1] THEN self
    ELSE into_resampler(self, sample_rate[1],
                        IF self.channels = "Mono" THEN "MonoResampler"
                        ELSE "StereoResampler")

\* The order in which canonicalize makes its two builder calls.
canonicalize_order_flipped(self, sink_channels) ==
    IF sink_channels # <<>> /\ ChannelCount(self.channels) < sink_channels[1]
    THEN <<"with_channels", "with_sample_rate">>
    ELSE <<"with_sample_rate", "with_channels">>
canonicalize_order(self, sink_channels) ==
    IF sink_channels # <<>> /\ ChannelCount(self.channels) > sink_channels[1]
    THEN <<"with_channels", "with_sample_rate">>
    ELSE <<"with_sample_rate", "with_channels">>

\* (mutant) canonicalize converts the channels and leaves the rate alone.
canonicalize_channels_only(self, sink_channels, sink_rate) ==
    with_channels(self, sink_channels)

\* Source::canonicalize for a sink reporting sink_channels and sink_rate.
canonicalize(self, sink_channels, sink_rate) ==
    IF canonicalize_order(self, sink_channels)[1] = "with_channels"
    THEN with_sample_rate(with_channels(self, sink_channels), sink_rate)
    ELSE with_channels(with_sample_rate(self, sink_rate), sink_channels)

\* The decoders and iterators a Source is opened from, holding the samples
\* base+1, base+2, ..
Decoders(base) ==
    {from_wav(Ramp(base, n), r, c) :
        n \in 0..MaxData, r \in Rates, c \in Layouts}
    \cup {from_iterator(VecIter(Ramp(base, n)), r, c) :
        n \in 0..MaxData, r \in Rates, c \in Layouts}
    \cup {from_ogg(p, r, c) : p \in PacketSeqs(base), r \in Rates, c \in Layouts}

\* The Sources handed to chain as its second operand.
Operands ==
    {from_iterator(VecIter(Ramp(10, n)), r, c) :
        n \in 0..MaxData, r \in Rates, c \in Layouts}

\* One entry of the history of builder calls.
Built(op, arg, rate, other, before, after, order) ==
    [op |-> op, arg |-> arg, rate |-> rate, other |-> other,
     before |-> before, after |-> after, order |-> order]

\* The mixers and the sink are not part of the Source specifications.
NoAudio ==
    /\ mixer = <<>>
    /\ nextId = 1
    /\ thread = "idle"
    /\ panic = "none"
    /\ ret = equilibrium
    /\ swept = <<>>
    /\ call = NoCall
    /\ pulls = [id \in SourceIds |-> 0]
    /\ NoSink
    /\ NoShared

InitSource ==
    /\ source \in Decoders(0)
    /\ outputs = <<>>
    /\ built = <<>>
    /\ srcState = "ok"
    /\ NoAudio
    /\ NoStart
    /\ NoProc
    /\ NoLate

\* self.chain(other) on a Source not pulled yet.
SrcChain(other) ==
    /\ srcState = "ok"
    /\ outputs = <<>>
    /\ Len(built) < MaxStages
    /\ \E r \in {chain(source, other)} :
       /\ source' = r.src
       /\ srcState' = IF r.ok THEN "ok" ELSE "panicked"
       /\ built' = Append(built, Built("chain", <<>>, <<>>, <<other>>,
                                       source, r.src, <<>>))
    /\ UNCHANGED <<outputs, mixerVars, sinkVars, sharedVars, procVars, lateVars,
                   startVars>>

\* self.with_channels(target).
SrcWithChannels(target) ==
    /\ srcState = "ok"
    /\ outputs = <<>>
    /\ Len(built) < MaxStages
    /\ \E after \in {with_channels(source, target)} :
       /\ source' = after
       /\ built' = Append(built, Built("with_channels", target, <<>>, <<>>,
                                       source, after, <<>>))
    /\ UNCHANGED <<outputs, srcState, mixerVars, sinkVars, sharedVars, procVars, lateVars,
                   startVars>>

\* self.with_sample_rate(target).
SrcWithSampleRate(target) ==
    /\ srcState = "ok"
    /\ outputs = <<>>
    /\ Len(built) < MaxStages
    /\ \E after \in {with_sample_rate(source, target)} :
       /\ source' = after
       /\ built' = Append(built, Built("with_sample_rate", <<>>, target,
                                       <<>>, source, after, <<>>))
    /\ UNCHANGED <<outputs, srcState, mixerVars, sinkVars, sharedVars, procVars, lateVars,
                   startVars>>

\* self.canonicalize(sink) for a sink that reports the given channel count
\* and sample rate.
SrcCanonicalize(sink_channels, sink_rate) ==
    /\ srcState = "ok"
    /\ outputs = <<>>
    /\ Len(built) < MaxStages
    /\ \E after \in {canonicalize(source, sink_channels, sink_rate)} :
       /\ source' = after
       /\ built' = Append(built,
                          Built("canonicalize", sink_channels, sink_rate,
                                <<>>, source, after,
                                canonicalize_order(source, sink_channels)))
    /\ UNCHANGED <<outputs, srcState, mixerVars, sinkVars, sharedVars, procVars, lateVars,
                   startVars>>

\* One Source::next on the Source built so far.
SrcNext ==
    /\ srcState = "ok"
    /\ Len(outputs) < MaxPulls
    /\ \E r \in {Source_next(source)} :
       /\ source' = r.src
       /\ outputs' = Append(outputs, r.out)
    /\ UNCHANGED <<built, srcState, mixerVars, sinkVars, sharedVars, procVars, lateVars,
                   startVars>>

\* Sources are built from the channel converters, the resamplers and chain,
\* and pulled.
NextSource ==
    \/ \E other \in Operands : SrcChain(other)
    \/ \E n \in 1..2 : SrcWithChannels(<<n>>)
    \/ \E r \in Rates : SrcWithSampleRate(<<r>>)
    \/ SrcNext

SpecSource == InitSource /\ [][NextSource]_vars

\* The channel counts and rates handed to the builders: absent, invalid and
\* valid ones.
ChannelTargets == {<<>>} \cup {<<n>> : n \in 0..3}
RateTargets == {<<>>} \cup {<<r>> : r \in {0} \cup Rates}

\* What a Sink reports to canonicalize: a DummySink reports neither a channel
\* count nor a rate, a RealSink reports both.
SinkReports ==
    {<< <<>>, <<>> >>} \cup {<< <<c>>, <<r>> >> : c \in 1..2, r \in Rates}

\* Sources that hold at most one sample: what the builders do does not depend
\* on the samples.
InitBuild ==
    /\ source \in {d \in Decoders(0) :
                     /\ d.reader = "Wav" => Len(d.data) <= 1
                     /\ d.reader = "Iterator" => Len(d.iterator.data) <= 1
                     /\ d.reader = "Ogg" => d.packets = <<>>}
    /\ outputs = <<>>
    /\ built = <<>>
    /\ srcState = "ok"
    /\ NoAudio
    /\ NoStart
    /\ NoProc
    /\ NoLate

\* Every builder with every kind of argument.
NextBuild ==
    \/ \E other \in {o \in Operands : Len(o.iterator.data) <= 1} :
           SrcChain(other)
    \/ \E t \in ChannelTargets : SrcWithChannels(t)
    \/ \E t \in RateTargets : SrcWithSampleRate(t)
    \/ \E s \in SinkReports : SrcCanonicalize(s[1], s[2])
    \/ SrcNext

SpecBuild == InitBuild /\ [][NextBuild]_vars

\* ---------------------------------------------------------------- C11 .. C18

\* A decoder or iterator over a plain sample sequence, and that sequence.
IsSequence(s) ==
    \/ s.reader = "Wav"
    \/ s.reader = "Iterator" /\ s.iterator.it = "Vec"
SamplesOf(s) == IF s.reader = "Wav" THEN s.data ELSE s.iterator.data

\* What n successive pulls on s return.
RECURSIVE PullsOf(_, _)
PullsOf(s, n) ==
    IF n = 0 THEN <<>>
    ELSE The({<<r.out>> \o PullsOf(r.src, n - 1) : r \in {Source_next(s)}})

\* The pulls of ps that precede its first None.
RECURSIVE UntilNone(_)
UntilNone(ps) ==
    IF ps = <<>> THEN <<>>
    ELSE IF Head(ps) = <<>> THEN <<>>
    ELSE <<Head(ps)>> \o UntilNone(Tail(ps))

\* Resampler stages in the pipeline of s.
RECURSIVE Resamplers(_)
Resamplers(s) ==
    CASE s.reader \in {"MonoResampler", "StereoResampler"} ->
            1 + Resamplers(s.source)
      [] s.reader \in {"MonoToStereo", "StereoToMono"} -> Resamplers(s.source)
      [] s.reader = "Iterator" /\ s.iterator.it = "Chain" ->
            Resamplers(s.iterator.a) + Resamplers(s.iterator.b)
      [] OTHER -> 0

\* Every chain in the pipeline of s joins two Sources of one format.
RECURSIVE OneFormat(_)
OneFormat(s) ==
    CASE s.reader \in {"MonoResampler", "StereoResampler", "MonoToStereo",
                       "StereoToMono"} -> OneFormat(s.source)
      [] s.reader = "Iterator" /\ s.iterator.it = "Chain" ->
            /\ s.iterator.a.sample_rate = s.iterator.b.sample_rate
            /\ s.iterator.a.channels = s.iterator.b.channels
            /\ OneFormat(s.iterator.a)
            /\ OneFormat(s.iterator.b)
      [] OTHER -> TRUE

\* C11: once a pull on a Source has returned no-sample, every later pull on
\* it returns no-sample as well, whatever variant the Source is.
C11_NoSampleAfterNoSample ==
    \A i \in 1..Len(outputs) : \A j \in i..Len(outputs) :
        outputs[i] = <<>> => outputs[j] = <<>>

\* The Source is a MonoToStereo stage directly over a mono sample sequence.
OverMonoSequence ==
    /\ Len(built) = 1
    /\ built[1].op = "with_channels"
    /\ built[1].after.reader = "MonoToStereo"
    /\ IsSequence(built[1].before)

\* C12: MonoToStereo over the mono sequence s0 .. s(n-1) yields s0, s0, s1,
\* s1, .., 2n samples, then no-sample, and pulls its inner source once per two
\* samples it yields.
C12_MonoToStereoYieldsEachSampleTwice ==
    OverMonoSequence =>
        LET d == SamplesOf(built[1].before)
            k == Len(outputs)
            taken == IF (k + 1) \div 2 < Len(d) THEN (k + 1) \div 2 ELSE Len(d)
        IN /\ \A i \in 1..k :
                outputs[i] = IF i <= 2 * Len(d) THEN <<d[(i + 1) \div 2]>>
                             ELSE <<>>
           /\ SamplesOf(source.source) = SubSeq(d, taken + 1, Len(d))

\* The Source is a StereoToMono stage directly over a stereo sample sequence.
OverStereoSequence ==
    /\ Len(built) = 1
    /\ built[1].op = "with_channels"
    /\ built[1].after.reader = "StereoToMono"
    /\ IsSequence(built[1].before)

\* C13: StereoToMono over an interleaved stereo sequence yields left plus
\* right of each frame, the last left sample plus zero when the sample count
\* is odd, and no-sample after the last frame.
C13_StereoToMonoSumsEachFrame ==
    OverStereoSequence =>
        LET d == SamplesOf(built[1].before)
            frames == (Len(d) + 1) \div 2
        IN \A k \in 1..Len(outputs) :
              outputs[k] =
                  IF k <= frames
                  THEN <<d[2 * k - 1]
                         + (IF 2 * k <= Len(d) THEN d[2 * k] ELSE 0)>>
                  ELSE <<>>

\* An odd number of samples has been summed to the end and one more pull
\* made.
C13_Witness ==
    /\ OverStereoSequence
    /\ Len(SamplesOf(built[1].before)) = 3
    /\ Len(outputs) >= 3

\* The Source is the result of a chain call whose assertions passed.
IsChained ==
    /\ built # <<>>
    /\ built[Len(built)].op = "chain"
    /\ srcState = "ok"

C15_ChainOfTwoFormatsPanics ==
    /\ \A k \in 1..Len(built) :
          (/\ built[k].op = "chain"
           /\ \/ built[k].before.sample_rate # built[k].other[1].sample_rate
              \/ built[k].before.channels # built[k].other[1].channels)
          => /\ built[k].after = NoSourceLeft
             /\ k = Len(built)
             /\ srcState = "panicked"
             /\ source = NoSourceLeft
    /\ srcState = "ok" => OneFormat(source)

\* A chain of two Sources of one rate and two layouts has been attempted.
C15_Witness ==
    /\ built # <<>>
    /\ built[Len(built)].op = "chain"
    /\ built[Len(built)].before.sample_rate
           = built[Len(built)].other[1].sample_rate
    /\ built[Len(built)].before.channels # built[Len(built)].other[1].channels
    /\ srcState = "panicked"

\* C16: with_sample_rate(R) returns a Source of rate R unchanged and
\* otherwise adds one resampler stage; applied twice it adds one stage when
\* the original rate differs from R and none when it equals R; the result
\* reports rate R and the layout it had.
C16_SecondResampleIsNoOp ==
    \A k \in 1..Len(built) :
        (built[k].op = "with_sample_rate" /\ TryNonZero(built[k].rate) # <<>>)
        => LET R == built[k].rate[1]
               b == built[k].before
               a == built[k].after
           IN /\ b.sample_rate = R => a = b
              /\ b.sample_rate # R =>
                    /\ a.reader = IF b.channels = "Mono" THEN "MonoResampler"
                                  ELSE "StereoResampler"
                    /\ Resamplers(a) = Resamplers(b) + 1
              /\ a.sample_rate = R
              /\ a.channels = b.channels
              /\ (/\ k > 1
                  /\ built[k - 1].op = "with_sample_rate"
                  /\ built[k - 1].rate = built[k].rate)
                 => /\ a = b
                    /\ Resamplers(a) = Resamplers(built[k - 1].before)
                          + (IF built[k - 1].before.sample_rate = R THEN 0
                             ELSE 1)

\* with_sample_rate(R) has been applied twice to a Source of another rate.
C16_Witness ==
    /\ Len(built) = 2
    /\ built[1].op = "with_sample_rate"
    /\ built[2].op = "with_sample_rate"
    /\ built[1].rate = built[2].rate
    /\ TryNonZero(built[1].rate) # <<>>
    /\ built[1].before.sample_rate # built[1].rate[1]

\* C17: with_channels(target) returns the Source unchanged when the target
\* is absent, is no valid channel count or is the current layout; otherwise it
\* wraps the Source in MonoToStereo or StereoToMono and the result reports
\* the target layout; the sample rate stays the same.
C17_WithChannelsWrapsOnlyOnChange ==
    \A k \in 1..Len(built) :
        built[k].op = "with_channels"
        => LET c == TryChannels(built[k].arg)
               b == built[k].before
               a == built[k].after
           IN /\ (c = <<>> \/ built[k].arg[1] = ChannelCount(b.channels))
                 => a = b
              /\ (c # <<>> /\ built[k].arg[1] # ChannelCount(b.channels))
                 => /\ a.reader = IF b.channels = "Mono" THEN "MonoToStereo"
                                  ELSE "StereoToMono"
                    /\ a.source = b
                    /\ ChannelCount(a.channels) = built[k].arg[1]
              /\ a.sample_rate = b.sample_rate

\* with_channels has wrapped the Source and has then been called with a
\* channel count that is no layout.
C17_Witness ==
    /\ Len(built) = 2
    /\ built[1].op = "with_channels"
    /\ built[1].after # built[1].before
    /\ built[2].op = "with_channels"
    /\ built[2].arg = <<3>>

\* C18: canonicalize converts the channels before it resamples exactly when
\* the device has fewer channels than the Source, and resamples first when
\* the device has as many or more.
C18_CanonicalizeOrder ==
    \A k \in 1..Len(built) :
        (built[k].op = "canonicalize" /\ built[k].arg # <<>>)
        => LET b == built[k].before
               a == built[k].after
               fewer == built[k].arg[1] < ChannelCount(b.channels)
               both == /\ built[k].arg[1] # ChannelCount(b.channels)
                       /\ built[k].rate # <<>>
                       /\ built[k].rate[1] # b.sample_rate
           IN /\ fewer <=> built[k].order = <<"with_channels",
                                              "with_sample_rate">>
              /\ ~fewer <=> built[k].order = <<"with_sample_rate",
                                               "with_channels">>
              /\ (both /\ fewer)
                 => /\ a.reader = "MonoResampler"
                    /\ a.source.reader = "StereoToMono"
              /\ (both /\ ~fewer)
                 => /\ a.reader = "MonoToStereo"
                    /\ a.source.reader = "MonoResampler"

\* A stereo Source has been canonicalized for a mono device of another rate.
C18_Witness ==
    /\ built # <<>>
    /\ built[Len(built)].op = "canonicalize"
    /\ built[Len(built)].arg = <<1>>
    /\ built[Len(built)].before.channels = "Stereo"
    /\ built[Len(built)].rate # <<>>
    /\ built[Len(built)].rate[1] # built[Len(built)].before.sample_rate

\* ---------------------------------------------------------------- start
\* AudioThread::start of sink.rs and the Sink it returns: a RealSink that
\* queues commands for the audio thread, or the DummySink.  A Result or an
\* Option is a sequence: <<>> is Err(()) or None, <<v>> is Ok(v) or Some(v).

\* Calls made on the Sink in one run.
MaxCalls == 2

\* const HZ_44100 of get_output_format.
HZ_44100 == 44100

\* cpal::Format
Format(channels, sample_rate, data_type) ==
    [channels |-> channels, sample_rate |-> sample_rate,
     data_type |-> data_type]

\* The sample rates and channel counts of the modelled devices.
DeviceRates == {22050, 44100, 48000}
DeviceChannels == 1..3

\* cpal::SupportedFormat
SupportedFormats ==
    {f \in [channels : DeviceChannels, min_sample_rate : DeviceRates,
            max_sample_rate : DeviceRates, data_type : Formats] :
        f.min_sample_rate <= f.max_sample_rate}

\* What device.default_output_format() may answer when it succeeds.
DefaultFormats == {Format(c, 48000, "F32") : c \in DeviceChannels}

\* The audio hosts: whether there is a default output device, what its
\* supported_output_formats() answers (an error, or a list of no or one
\* format), what its default_output_format() answers, and whether
\* build_output_stream succeeds.
NoDevice ==
    [device |-> FALSE, supported |-> [ok |-> FALSE, formats |-> <<>>],
     default |-> <<>>, build |-> FALSE]
Hosts ==
    {NoDevice} \cup
    {[device |-> TRUE, supported |-> sup, default |-> d, build |-> b] :
        sup \in {[ok |-> FALSE, formats |-> <<>>],
                 [ok |-> TRUE, formats |-> <<>>]}
                \cup {[ok |-> TRUE, formats |-> <<f>>] : f \in SupportedFormats},
        d \in {<<>>} \cup {<<f>> : f \in DefaultFormats},
        b \in BOOLEAN}

\* AudioThread::get_output_device
get_output_device(h) == IF h.device THEN <<h>> ELSE <<>>

\* Iterator::max_by(SupportedFormat::cmp_default_heuristics) over the formats
\* of a device that lists at most one.
max_by(formats) == IF formats = <<>> THEN <<>> ELSE <<formats[1]>>

\* AudioThread::get_output_format
get_output_format(device) ==
    LET best == IF device.supported.ok THEN max_by(device.supported.formats)
                ELSE <<>>
        chosen ==
            IF best # <<>>
            THEN <<Format(best[1].channels,
                          IF /\ best[1].min_sample_rate <= HZ_44100
                             /\ HZ_44100 <= best[1].max_sample_rate
                          THEN HZ_44100
                          ELSE best[1].max_sample_rate,
                          best[1].data_type)>>
            ELSE device.default
    IN IF chosen = <<>> THEN <<>>
       ELSE IF chosen[1].channels <= 2 THEN chosen
       ELSE <<>>

\* struct RealSink and struct DummySink.
RealSink(fmt) == [kind |-> "RealSink", format |-> fmt]
DummySink == [kind |-> "DummySink"]

\* AudioThread::spawn: Err(()) at the first of the three steps that fails.
spawn_unbuilt(h) ==
    LET device == get_output_device(h) IN
    IF device = <<>> THEN <<>>
    ELSE LET fmt == get_output_format(device[1]) IN
         IF fmt = <<>> THEN <<>>
         ELSE <<RealSink(fmt[1])>>
spawn(h) ==
    LET device == get_output_device(h) IN
    IF device = <<>> THEN <<>>
    ELSE LET fmt == get_output_format(device[1]) IN
         IF fmt = <<>> THEN <<>>
         ELSE IF ~h.build THEN <<>>
         ELSE <<RealSink(fmt[1])>>

\* AudioThread::start
start(h) == LET r == spawn(h) IN IF r # <<>> THEN r[1] ELSE DummySink

\* DummySink::play and DummySink::play_singleton: the signal is dropped when
\* the call returns; kept is what the sink holds afterwards and left the
\* samples the signal had when it was dropped.
DummySink_play_keep(held, signal) ==
    [kept |-> Append(held, signal), left |-> signal.data]
DummySink_play(held, signal) == [kept |-> held, left |-> signal.data]

\* Sink::channels
channels(s) == IF s.kind = "RealSink" THEN <<s.format.channels>> ELSE <<>>

\* Sink::sample_rate
sample_rate(s) ==
    IF s.kind = "RealSink" THEN <<s.format.sample_rate>> ELSE <<>>

\* One entry of the history of calls on the Sink.
SinkCall(op, name, signal, left, result) ==
    [op |-> op, name |-> name, signal |-> signal, left |-> left,
     result |-> result]

InitStart ==
    /\ sink = [kind |-> "none"]
    /\ host \in Hosts
    /\ calls = <<>>
    /\ retained = <<>>
    /\ NoAudio
    /\ NoSource
    /\ NoProc
    /\ NoLate

\* AudioThread::start(): the audio thread of a RealSink starts with an empty
\* Mixer and the negotiated format.
Start ==
    /\ sink.kind = "none"
    /\ sink' = start(host)
    /\ format' = IF sink'.kind = "RealSink" THEN sink'.format.data_type
                 ELSE format
    /\ UNCHANGED <<mixerVars, queue, buffer, cursor, delivered, produced,
                   applied, startSent, callbacks, single, sharedVars, procVars, lateVars,
                   sourceVars, host, calls, retained>>

\* sink.play(name, signal) on the Sink that start returned.
SinkPlay(name, data) ==
    /\ sink.kind # "none"
    /\ Len(calls) < MaxCalls
    /\ nextId <= MaxSources
    /\ nextId' = nextId + 1
    /\ LET signal == [id |-> nextId, data |-> data] IN
       IF sink.kind = "RealSink"
       THEN /\ queue' = send(queue, AudioCommand("Play", name, nextId, data))
            /\ calls' = Append(calls, SinkCall("play", name, <<signal>>,
                                               data, "returned"))
            /\ UNCHANGED retained
       ELSE LET r == DummySink_play(retained, signal) IN
            /\ retained' = r.kept
            /\ calls' = Append(calls, SinkCall("play", name, <<signal>>,
                                               r.left, "returned"))
            /\ UNCHANGED queue
    /\ UNCHANGED <<mixer, thread, panic, ret, swept, call, pulls, format,
                   buffer, cursor, delivered, produced, applied, startSent,
                   callbacks, single, sharedVars, procVars, lateVars,
                   sourceVars, sink, host>>

\* sink.play_singleton(name, signal) on the Sink that start returned.
SinkPlaySingleton(name, data) ==
    /\ sink.kind # "none"
    /\ Len(calls) < MaxCalls
    /\ nextId <= MaxSources
    /\ nextId' = nextId + 1
    /\ LET signal == [id |-> nextId, data |-> data] IN
       IF sink.kind = "RealSink"
       THEN /\ queue' = send(queue, AudioCommand("PlaySingleton", name,
                                                 nextId, data))
            /\ calls' = Append(calls, SinkCall("play_singleton", name,
                                               <<signal>>, data, "returned"))
            /\ UNCHANGED retained
       ELSE LET r == DummySink_play(retained, signal) IN
            /\ retained' = r.kept
            /\ calls' = Append(calls, SinkCall("play_singleton", name,
                                               <<signal>>, r.left,
                                               "returned"))
            /\ UNCHANGED queue
    /\ UNCHANGED <<mixer, thread, panic, ret, swept, call, pulls, format,
                   buffer, cursor, delivered, produced, applied, startSent,
                   callbacks, single, sharedVars, procVars, lateVars,
                   sourceVars, sink, host>>

\* sink.channels()
SinkChannels ==
    /\ sink.kind # "none"
    /\ Len(calls) < MaxCalls
    /\ calls' = Append(calls, SinkCall("channels", None, <<>>, <<>>,
                                       channels(sink)))
    /\ UNCHANGED <<mixerVars, sinkVars, sharedVars, procVars, lateVars,
                   sourceVars, sink, host,
                   retained>>

\* sink.sample_rate()
SinkSampleRate ==
    /\ sink.kind # "none"
    /\ Len(calls) < MaxCalls
    /\ calls' = Append(calls, SinkCall("sample_rate", None, <<>>, <<>>,
                                       sample_rate(sink)))
    /\ UNCHANGED <<mixerVars, sinkVars, sharedVars, procVars, lateVars,
                   sourceVars, sink, host,
                   retained>>

NextStart ==
    \/ Start
    \/ \E name \in {None, "x"}, data \in Loud : SinkPlay(name, data)
    \/ \E data \in Loud : SinkPlaySingleton("x", data)
    \/ SinkChannels
    \/ SinkSampleRate

SpecStart == InitStart /\ [][NextStart]_vars

\* ---------------------------------------------------------------- C19, C20

\* C19: on the DummySink every play and play_singleton returns normally, no
\* source handed to it is pulled or retained, and channels() and
\* sample_rate() report unavailable, at every point of any sequence of calls.
C19_DummySinkDiscardsEverything ==
    sink.kind = "DummySink" =>
        /\ retained = <<>>
        /\ queue = <<>>
        /\ mixer = <<>>
        /\ \A k \in 1..Len(calls) :
              /\ calls[k].op \in {"play", "play_singleton"} =>
                    /\ calls[k].result = "returned"
                    /\ calls[k].left = calls[k].signal[1].data
              /\ calls[k].op \in {"channels", "sample_rate"} =>
                    calls[k].result = <<>>

\* A source with samples left was played on the DummySink, then a capability
\* was queried.
C19_Witness ==
    /\ sink.kind = "DummySink"
    /\ Len(calls) = 2
    /\ calls[1].op \in {"play", "play_singleton"}
    /\ calls[1].signal[1].data # <<>>
    /\ calls[2].op \in {"channels", "sample_rate"}

\* Format negotiation with the device of host h finds a format of at most
\* two channels.
Negotiable(h) ==
    IF h.supported.ok /\ h.supported.formats # <<>>
    THEN h.supported.formats[1].channels <= 2
    ELSE h.default # <<>> /\ h.default[1].channels <= 2

\* C20: AudioThread::start always returns a Sink: the RealSink when device
\* lookup, format negotiation and stream creation all succeed, the DummySink
\* when any one of them fails.
C20_StartFallsBackToDummySink ==
    sink.kind # "none" =>
        /\ sink.kind \in {"RealSink", "DummySink"}
        /\ sink.kind = "RealSink"
              <=> (host.device /\ Negotiable(host) /\ host.build)
        /\ sink.kind = "DummySink"
              <=> (~host.device \/ ~Negotiable(host) \/ ~host.build)

\* start has returned the DummySink because only the stream could not be
\* built.
C20_Witness ==
    /\ sink.kind = "DummySink"
    /\ host.device
    /\ Negotiable(host)
    /\ ~host.build

\* ---------------------------------------------------------------- C21, C22

\* The format that negotiation starts from on the device of host h: the best
\* supported format when the device lists one, else its default format.
Offered(h) ==
    IF h.supported.ok /\ h.supported.formats # <<>>
    THEN <<h.supported.formats[1]>>
    ELSE h.default

\* C21: the negotiated sample rate is 44100 Hz when the supported range
\* [min_sample_rate, max_sample_rate] of the device includes it, and the
\* sample rate of the device's own default format otherwise.
C21_RateIs44100OrDeviceDefault ==
    (/\ sink.kind = "RealSink"
     /\ host.supported.ok
     /\ host.supported.formats # <<>>) =>
        LET f == host.supported.formats[1] IN
        IF f.min_sample_rate <= HZ_44100 /\ HZ_44100 <= f.max_sample_rate
        THEN sink.format.sample_rate = HZ_44100
        ELSE host.default # <<>> =>
                sink.format.sample_rate = host.default[1].sample_rate

\* C22: for every device that offers a format and whose stream can be built,
\* the sink is opened with min(device channel count, 2) channels.
C22_ChannelsClampedToTwo ==
    (/\ sink.kind # "none"
     /\ host.device
     /\ host.build
     /\ Offered(host) # <<>>) =>
        /\ sink.kind = "RealSink"
        /\ sink.format.channels =
              IF Offered(host)[1].channels <= 2
              THEN Offered(host)[1].channels ELSE 2

\* ---------------------------------------------------------------- threads
\* The panic hook of util.rs, the window threads of window.rs that install
\* it and stop on their closed flag, and the audio thread of sink.rs.

\* Window threads of the process (bound).
MaxWindows == 2
Windows == 1..MaxWindows

\* What a panic carries: the IntentionalPanic of util.rs or anything else.
Payloads == {"IntentionalPanic", "other"}

\* Resized events stored and resize_to() calls made per window (bounds).
MaxResizes == 2
MaxPolls == 2

\* The logical sizes of Resized events, 0 for a size with a zero dimension
\* (bound), and the factors of HiDpiFactorChanged events.
MaxSize == 1
DpiFactors == {1, 2}

\* The events a window callback is invoked with: those that close the
\* window and one that changes nothing; Resized and HiDpiFactorChanged.
Event(kind, value) == [kind |-> kind, value |-> value]
Closing == {"UserEvent", "CloseRequested", "Destroyed"}
Events == {Event(k, 0) : k \in Closing \cup {"EventsCleared"}}
ResizeEvents ==
    {Event("Resized", n) : n \in 0..MaxSize}
    \cup {Event("HiDpiFactorChanged", f) : f \in DpiFactors}

\* The panic hook of a fresh process.
DefaultHook == <<"default">>

\* (mutant) the closure never calls the hook it wraps.
downcast_is_none_never(payload) == FALSE

\* panic_info.payload().downcast_ref::<IntentionalPanic>().is_none()
downcast_is_none(payload) == payload # "IntentionalPanic"

\* A panic with the given payload calls the hook h: the layers of h that run,
\* outermost first. The closure of setup_hook calls the hook it wraps when
\* the payload is no IntentionalPanic; the default hook prints the report.
RECURSIVE hook_call(_, _)
hook_call(h, payload) ==
    IF h[Len(h)] = "wrap"
    THEN IF downcast_is_none(payload)
         THEN <<Len(h)>> \o hook_call(SubSeq(h, 1, Len(h) - 1), payload)
         ELSE <<Len(h)>>
    ELSE <<Len(h)>>

\* The record of one panic: the thread, the payload, the hook in force and
\* the layers of it that ran.
Report(t, payload, h) ==
    [thread |-> t, payload |-> payload, hook |-> h,
     ran |-> hook_call(h, payload)]

InitStop ==
    /\ SETUP_HOOK = FALSE
    /\ hook = DefaultHook
    /\ pc = [w \in Windows |-> "new"]
    /\ original_hook = [w \in Windows |-> <<>>]
    /\ closed = [w \in Windows |-> FALSE]
    /\ audio = [state |-> "Running", left |-> 0]
    /\ reports = <<>>
    /\ takes = <<>>
    /\ resize_to = [w \in Windows |-> <<>>]
    /\ dpi_factor = [w \in Windows |-> 1]
    /\ via \in [Windows -> {"with", "spawn"}]
    /\ caller = [w \in Windows |-> "none"]
    /\ stored = [w \in Windows |-> <<>>]
    /\ polled = [w \in Windows |-> <<>>]
    /\ NoQueue
    /\ NoKeys
    /\ NoAudio
    /\ NoSource
    /\ NoStart

\* setup_hook, called by WindowEvents::new: SETUP_HOOK.load(Acquire).
SetupLoad(w) ==
    /\ pc[w] = "new"
    /\ pc' = [pc EXCEPT ![w] = IF SETUP_HOOK THEN "run" ELSE "take"]
    /\ UNCHANGED <<SETUP_HOOK, hook, original_hook, closed, audio, reports,
                   takes, mixerVars, sinkVars, sharedVars, sourceVars,
                   startVars,
                   lateVars>>

\* setup_hook: panic::take_hook() unregisters the hook in force and returns
\* it; the default hook is in force afterwards.
SetupTake(w) ==
    /\ pc[w] = "take"
    /\ original_hook' = [original_hook EXCEPT ![w] = hook]
    /\ takes' = Append(takes, hook)
    /\ hook' = DefaultHook
    /\ pc' = [pc EXCEPT ![w] = "set"]
    /\ UNCHANGED <<SETUP_HOOK, closed, audio, reports, mixerVars, sinkVars,
                   sharedVars, sourceVars, startVars,
                   lateVars>>

\* setup_hook: panic::set_hook of the closure around original_hook.
SetupSet(w) ==
    /\ pc[w] = "set"
    /\ hook' = Append(original_hook[w], "wrap")
    /\ pc' = [pc EXCEPT ![w] = "store"]
    /\ UNCHANGED <<SETUP_HOOK, original_hook, closed, audio, reports, takes,
                   mixerVars, sinkVars, sharedVars, sourceVars, startVars,
                   lateVars>>

\* setup_hook: SETUP_HOOK.store(true, Release); the window thread then runs
\* its event loop.
SetupStore(w) ==
    /\ pc[w] = "store"
    /\ SETUP_HOOK' = TRUE
    /\ pc' = [pc EXCEPT ![w] = "run"]
    /\ UNCHANGED <<hook, original_hook, closed, audio, reports, takes,
                   mixerVars, sinkVars, sharedVars, sourceVars, startVars,
                   lateVars>>

\* size.to_physical(dpi_factor) of a logical size; 0 stands for a size with
\* a zero dimension.
to_physical(size, factor) == size * factor

\* (mutant) closed() never reports the flag.
closed_never(flag) == FALSE

\* WindowEvents::closed
closed_load(flag) == flag

\* (mutant) with swallows every unwind.
with_catch_all(payload) == "returned"

\* WindowThread::with after catch_unwind returned Err(e): it returns when e is
\* an IntentionalPanic and panics with e otherwise.
with_catch(payload) ==
    IF payload # "IntentionalPanic" THEN "panicked" ELSE "returned"

\* WindowEvents::callback: the match on the event, where the unwrap of a
\* Resized size with a zero dimension panics, then the panic with
\* IntentionalPanic when closed is set. An unwind ends the event loop; under
\* WindowThread::with it is caught, and re-raised by a second panic.
WindowCallback(w, event) ==
    /\ pc[w] = "run"
    /\ event.kind = "Resized" => Len(stored[w]) < MaxResizes
    /\ LET physical == to_physical(event.value, dpi_factor[w])
           stores == event.kind = "Resized" /\ physical # 0
           flag == closed[w] \/ event.kind \in Closing
           payload == IF event.kind = "Resized" /\ physical = 0
                      THEN <<"other">>
                      ELSE IF closed_load(flag) THEN <<"IntentionalPanic">>
                      ELSE <<>>
       IN  /\ closed' = [closed EXCEPT ![w] = flag]
           /\ dpi_factor' = IF event.kind = "HiDpiFactorChanged"
                            THEN [dpi_factor EXCEPT ![w] = event.value]
                            ELSE dpi_factor
           /\ resize_to' = IF stores
                           THEN [resize_to EXCEPT ![w] = <<physical>>]
                           ELSE resize_to
           /\ stored' = IF stores
                        THEN [stored EXCEPT ![w] = Append(@, physical)]
                        ELSE stored
           /\ IF payload = <<>>
              THEN UNCHANGED <<reports, pc, caller>>
              ELSE /\ pc' = [pc EXCEPT ![w] = "terminated"]
                   /\ caller' = IF via[w] = "with"
                                THEN [caller EXCEPT
                                        ![w] = with_catch(payload[1])]
                                ELSE caller
                   /\ reports' =
                        Append(reports, Report(w, payload[1], hook))
                        \o (IF /\ via[w] = "with"
                               /\ with_catch(payload[1]) = "panicked"
                            THEN <<Report(w, "other", hook)>>
                            ELSE <<>>)
    /\ UNCHANGED <<SETUP_HOOK, hook, original_hook, audio, takes, via, polled,
                   queueVars, keyVars, mixerVars, sinkVars, sharedVars,
                   sourceVars, startVars>>

\* The host audio loop invokes AudioThread::callback with an output buffer
\* of n slots; no command is pending.
AudioCallbackBegin(n) ==
    /\ audio.state = "Running"
    /\ audio.left = 0
    /\ audio' = [audio EXCEPT !.left = n]
    /\ UNCHANGED <<SETUP_HOOK, hook, pc, original_hook, closed, reports,
                   takes, mixerVars, sinkVars, sharedVars, sourceVars,
                   startVars,
                   lateVars>>

\* fill_stream_buffer: one iteration; Mixer::next returns a frame or panics
\* in swap_retain. The callback returns after the last slot.
AudioFill(outcome) ==
    /\ audio.state = "Running"
    /\ audio.left > 0
    /\ IF outcome = "frame"
       THEN /\ audio' = [audio EXCEPT !.left = audio.left - 1]
            /\ UNCHANGED reports
       ELSE /\ audio' = [audio EXCEPT !.state = "Terminated"]
            /\ reports' = Append(reports, Report(0, "other", hook))
    /\ UNCHANGED <<SETUP_HOOK, hook, pc, original_hook, closed, takes,
                   mixerVars, sinkVars, sharedVars, sourceVars, startVars,
                   lateVars>>

AudioStep ==
    \/ \E n \in 1..MaxBuf : AudioCallbackBegin(n)
    \/ \E outcome \in {"frame", "panic"} : AudioFill(outcome)

NextStop ==
    \/ \E w \in Windows : SetupLoad(w)
    \/ \E w \in Windows : SetupTake(w)
    \/ \E w \in Windows : SetupSet(w)
    \/ \E w \in Windows : SetupStore(w)
    \/ \E w \in Windows, event \in Events : WindowCallback(w, event)
    \/ AudioStep

SpecStop == InitStop /\ [][NextStop]_vars

\* The host audio loop invokes the callback again and again, and an
\* invocation under way runs on.
SpecStopFair == SpecStop /\ WF_vars(AudioStep)

\* ---------------------------------------------------------------- C23 .. C25

\* A stop has been requested: the closed flag of a window is set.
StopRequested == \E w \in Windows : closed[w]

\* C23: after a stop is requested by setting the shared flag, the audio
\* callback finishes the buffer fill under way, raises the IntentionalPanic
\* unwind, and the audio thread eventually is Terminated.
C23_StopLeadsToTermination ==
    StopRequested ~> (audio.state = "Terminated")

\* C24: when a panic calls a hook that setup_hook installed, the report is
\* suppressed if the payload is IntentionalPanic, and for any other payload
\* the hook that was installed before it runs and the report is printed.
C24_HookSuppressesOnlyIntentionalPanic ==
    \A k \in 1..Len(reports) :
        LET r == reports[k]
            n == Len(r.hook)
        IN  r.hook[n] = "wrap" =>
               IF r.payload = "IntentionalPanic"
               THEN r.ran = <<n>>
               ELSE /\ Len(r.ran) >= 2
                    /\ r.ran[2] = n - 1
                    /\ r.ran[Len(r.ran)] = 1
                    /\ r.hook[1] = "default"

\* The audio callback has panicked with another payload while the hook of
\* setup_hook was in force, and a window has stopped with IntentionalPanic.
C24_Witness ==
    /\ \E k \in 1..Len(reports) :
          /\ reports[k].payload = "other"
          /\ reports[k].hook[Len(reports[k].hook)] = "wrap"
    /\ \E k \in 1..Len(reports) :
          /\ reports[k].payload = "IntentionalPanic"
          /\ reports[k].hook[Len(reports[k].hook)] = "wrap"

\* C25: for any number of calls of setup_hook, concurrent ones included, the
\* previous hook is taken once and wrapped once.
C25_HookInstalledOnce ==
    /\ Len(takes) <= 1
    /\ Cardinality({i \in 1..Len(hook) : hook[i] = "wrap"}) <= 1

\* ---------------------------------------------------------------- assets
\* Source::new on the bytes of an asset, and pulls on the decoder it returns.

\* The channel counts a WAV or Ogg header may declare.
HeaderChannels == 0..3

\* The packets of an Ogg stream: none at all, or a packet sequence; errors[i]
\* tells that decoding packet i fails (a corrupt packet).
OggStreams ==
    {[packets |-> <<>>, errors |-> <<>>]} \cup
    UNION {{[packets |-> p, errors |-> e] : e \in [1..Len(p) -> BOOLEAN]} :
           p \in PacketSeqs(0)}

\* The assets: what the header declares and what the body holds.
Assets ==
    {[kind |-> "Wav", channels |-> c, sample_rate |-> r, data |-> Ramp(0, n)] :
        c \in HeaderChannels, r \in Rates, n \in 0..MaxData}
    \cup {[kind |-> "Ogg", channels |-> c, sample_rate |-> r, stream |-> st] :
        c \in HeaderChannels, r \in Rates, st \in OggStreams}

\* Source::new: the Source, or nothing when one of the unwraps of from_wav or
\* from_ogg panics. from_ogg decodes the first packet before it converts the
\* channel count.
Source_new(asset) ==
    IF asset.kind = "Wav"
    THEN IF TryChannels(<<asset.channels>>) = <<>> THEN <<>>
         ELSE <<from_wav(asset.data, asset.sample_rate,
                         TryChannels(<<asset.channels>>)[1])>>
    ELSE IF asset.stream.packets = <<>> THEN <<>>
         ELSE IF asset.stream.errors[1] THEN <<>>
         ELSE IF TryChannels(<<asset.channels>>) = <<>> THEN <<>>
         ELSE <<from_ogg(asset.stream.packets, asset.sample_rate,
                         TryChannels(<<asset.channels>>)[1])
                @@ [errors |-> Tail(asset.stream.errors)]>>

\* Source::next on a decoder: the Ogg arm decodes a further packet when the
\* pending chunk has no sample left, and the unwrap of the decode result
\* panics on a corrupt packet.
Decoder_next(s) ==
    IF s.reader = "Ogg"
    THEN IF s.chunk # <<>> /\ s.chunk[1] # <<>>
         THEN The({[src |-> r.src, out |-> r.out, panic |-> FALSE] :
                   r \in {Source_next(s)}})
         ELSE IF s.packets # <<>> /\ Head(s.errors)
         THEN [src |-> s, out |-> <<>>, panic |-> TRUE]
         ELSE The({[src |-> [r.src EXCEPT !.errors =
                               IF s.errors = <<>> THEN <<>> ELSE Tail(s.errors)],
                    out |-> r.out, panic |-> FALSE] :
                   r \in {Source_next(s)}})
    ELSE The({[src |-> r.src, out |-> r.out, panic |-> FALSE] :
              r \in {Source_next(s)}})

InitAsset ==
    /\ source = NoSourceLeft
    /\ outputs = <<>>
    /\ built = <<>>
    /\ srcState = "ok"
    /\ NoAudio
    /\ NoStart
    /\ NoProc
    /\ NoLate

\* Source::new(asset)
SourceNew(asset) ==
    /\ built = <<>>
    /\ \E r \in {Source_new(asset)} :
       /\ source' = IF r = <<>> THEN NoSourceLeft ELSE r[1]
       /\ srcState' = IF r = <<>> THEN "panicked" ELSE "ok"
       /\ built' = <<Built("new", <<>>, <<>>, <<asset>>, NoSourceLeft,
                           IF r = <<>> THEN NoSourceLeft ELSE r[1], <<>>)>>
    /\ UNCHANGED <<outputs, mixerVars, sinkVars, sharedVars, startVars,
                   procVars, lateVars>>

\* One Source::next on the decoder.
AssetNext ==
    /\ built # <<>>
    /\ srcState = "ok"
    /\ Len(outputs) < MaxPulls
    /\ \E r \in {Decoder_next(source)} :
       IF r.panic
       THEN /\ srcState' = "panicked"
            /\ UNCHANGED <<source, outputs>>
       ELSE /\ source' = r.src
            /\ outputs' = Append(outputs, r.out)
            /\ UNCHANGED srcState
    /\ UNCHANGED <<built, mixerVars, sinkVars, sharedVars, startVars,
                   procVars, lateVars>>

NextAsset ==
    \/ \E asset \in Assets : SourceNew(asset)
    \/ AssetNext

SpecAsset == InitAsset /\ [][NextAsset]_vars

\* ---------------------------------------------------------------- C26 .. C28

\* The asset Source::new was called with.
Opened == built[1].other[1]

\* The samples of the packets from the i-th on that decode, in stream order.
RECURSIVE ValidSamples(_, _)
ValidSamples(st, i) ==
    IF i > Len(st.packets) THEN <<>>
    ELSE (IF st.errors[i] THEN <<>> ELSE st.packets[i])
         \o ValidSamples(st, i + 1)

\* The samples among the pulls ps, in order.
RECURSIVE Yielded(_)
Yielded(ps) ==
    IF ps = <<>> THEN <<>> ELSE Head(ps) \o Yielded(Tail(ps))

IsPrefix(a, b) == Len(a) <= Len(b) /\ a = SubSeq(b, 1, Len(a))

\* C26: when decoding an Ogg packet fails, neither opening nor pulling aborts:
\* the Source skips the packet and goes on to yield the samples of the valid
\* packets, in order.
C26_CorruptPacketIsSkipped ==
    (/\ built # <<>>
     /\ Opened.kind = "Ogg"
     /\ Opened.channels \in 1..2
     /\ Opened.stream.packets # <<>>) =>
        /\ srcState = "ok"
        /\ IsPrefix(Yielded(outputs), ValidSamples(Opened.stream, 1))

\* C27: the k-th pull on an Ogg Source whose packets all decode returns the
\* k-th sample of the packets in stream order, and no-sample only when every
\* sample of every packet has been yielded.
C27_OggYieldsEveryPacketInOrder ==
    (/\ built # <<>>
     /\ Opened.kind = "Ogg"
     /\ srcState = "ok"
     /\ \A i \in 1..Len(Opened.stream.errors) : ~Opened.stream.errors[i]) =>
        \A k \in 1..Len(outputs) :
            outputs[k] =
                IF k <= Len(ValidSamples(Opened.stream, 1))
                THEN <<ValidSamples(Opened.stream, 1)[k]>>
                ELSE <<>>

\* An asset whose body is sound: a WAV, or an Ogg stream whose first packet
\* exists and decodes.
BodyOpens(asset) ==
    asset.kind = "Ogg" =>
        asset.stream.packets # <<>> /\ ~asset.stream.errors[1]

\* C28: opening an asset whose header declares a channel count other than 1
\* or 2 fails and yields no Source; a Source that exists reports Mono for 1
\* and Stereo for 2.
C28_SourceOnlyFromOneOrTwoChannels ==
    built # <<>> =>
        /\ Opened.channels \notin 1..2 =>
              srcState = "panicked" /\ source = NoSourceLeft
        /\ (Opened.channels \in 1..2 /\ BodyOpens(Opened)) =>
              source # NoSourceLeft
        /\ source # NoSourceLeft =>
              /\ source.channels \in Layouts
              /\ ChannelCount(source.channels) = Opened.channels

\* A WAV asset of three channels was opened.
C28_Witness ==
    /\ built # <<>>
    /\ Opened.kind = "Wav"
    /\ Opened.channels = 3
    /\ srcState = "panicked"

\* ---------------------------------------------------------------- C29

\* C29: while add and remove run on other threads, every pull of Mixer::next
\* is on a Source that still has a sample: the unwrap of the pulled sample
\* never sees no-sample, and the call does not fail.
C29_UnwrapNeverSeesNoSample ==
    /\ panic # "unwrap"
    /\ thread = "pull" /\ ~poisoned /\ idx < Len(mixer) =>
          source_next(mixer[idx + 1]) # <<>>

\* ---------------------------------------------------------------- C30

\* C30: canonicalize for a sink that reports the channel count C (1 or 2) and
\* the sample rate R > 0 returns a Source that reports C channels and the
\* rate R, whatever the layout and rate of the Source were; for a sink that
\* reports neither (the DummySink) it returns the Source unchanged.
C30_CanonicalizeMatchesTheSink ==
    \A k \in 1..Len(built) :
        built[k].op = "canonicalize" =>
            /\ (built[k].arg # <<>> /\ built[k].rate # <<>>) =>
                  /\ ChannelCount(built[k].after.channels) = built[k].arg[1]
                  /\ built[k].after.sample_rate = built[k].rate[1]
            /\ (built[k].arg = <<>> /\ built[k].rate = <<>>) =>
                  built[k].after = built[k].before

\* Sources of both layouts have been canonicalized, one for a sink of the
\* other layout and another rate, the result again for the DummySink.
C30_Witness ==
    /\ Len(built) = 2
    /\ built[1].op = "canonicalize"
    /\ built[1].arg # <<>>
    /\ built[1].arg[1] # ChannelCount(built[1].before.channels)
    /\ built[1].rate[1] # built[1].before.sample_rate
    /\ built[2].op = "canonicalize"
    /\ built[2].arg = <<>>

\* ---------------------------------------------------------------- window
\* One window whose thread has entered its event loop, the events it is sent
\* and the render thread that polls it.

\* (mutant) resize_to() reads the cell and leaves it.
WindowEvents_resize_to_load(cell) == [ret |-> cell, cell |-> cell]

\* WindowEvents::resize_to: AtomicCell::swap(None) returns what the cell held
\* and leaves it empty, in one atomic step.
WindowEvents_resize_to(cell) == [ret |-> cell, cell |-> <<>>]

\* WindowThread::new has run for window 1: the hook is installed and the
\* thread runs the event loop.
InitWindow ==
    /\ SETUP_HOOK = TRUE
    /\ hook = Append(DefaultHook, "wrap")
    /\ pc = [w \in Windows |-> IF w = 1 THEN "run" ELSE "new"]
    /\ original_hook = [w \in Windows |-> IF w = 1 THEN DefaultHook ELSE <<>>]
    /\ closed = [w \in Windows |-> FALSE]
    /\ audio = [state |-> "none", left |-> 0]
    /\ reports = <<>>
    /\ takes = <<DefaultHook>>
    /\ resize_to = [w \in Windows |-> <<>>]
    /\ dpi_factor = [w \in Windows |-> 1]
    /\ via \in {v \in [Windows -> {"with", "spawn"}] :
                  \A w \in Windows : w # 1 => v[w] = "spawn"}
    /\ caller = [w \in Windows |-> "none"]
    /\ stored = [w \in Windows |-> <<>>]
    /\ polled = [w \in Windows |-> <<>>]
    /\ NoQueue
    /\ NoKeys
    /\ NoAudio
    /\ NoSource
    /\ NoStart

\* Render::update on the render thread: events.resize_to(), then the frame.
RenderUpdate(w) ==
    /\ pc[w] \in {"run", "terminated"}
    /\ Len(polled[w]) < MaxPolls
    /\ \E r \in {WindowEvents_resize_to(resize_to[w])} :
       /\ resize_to' = [resize_to EXCEPT ![w] = r.cell]
       /\ polled' = [polled EXCEPT
                       ![w] = Append(@, [ret |-> r.ret,
                                         stores |-> Len(stored[w])])]
    /\ UNCHANGED <<procVars, dpi_factor, via, caller, stored, queueVars,
                   keyVars, mixerVars, sinkVars, sharedVars, sourceVars,
                   startVars>>

NextWindow ==
    \/ \E event \in Events \cup ResizeEvents : WindowCallback(1, event)
    \/ RenderUpdate(1)

SpecWindow == InitWindow /\ [][NextWindow]_vars

\* ---------------------------------------------------------------- C31, C32, C39

\* C31: closed is set and never cleared; the callback invocation that sets it
\* ends with the IntentionalPanic, so that the window thread terminates, and
\* a terminated window thread handles no further event.
C31_ClosedWindowTerminates ==
    /\ [](\A w \in Windows : closed[w] => pc[w] = "terminated")
    /\ [][\A w \in Windows : closed[w] => closed'[w]]_vars
    /\ [][\A w \in Windows :
            pc[w] = "terminated" =>
                /\ pc'[w] = "terminated"
                /\ closed'[w] = closed[w]
                /\ stored'[w] = stored[w]
                /\ dpi_factor'[w] = dpi_factor[w]]_vars
    /\ \A w \in Windows : closed[w] ~> (pc[w] = "terminated")

\* A closing event has ended the window thread with an IntentionalPanic.
C31_Witness ==
    /\ closed[1]
    /\ pc[1] = "terminated"
    /\ reports # <<>>
    /\ reports[1].payload = "IntentionalPanic"

\* C32: WindowThread::with returns normally exactly when the window loop
\* unwound with an IntentionalPanic, and panics towards its caller when the
\* loop unwound with any other payload.
C32_WithSwallowsOnlyIntentionalPanic ==
    \A w \in Windows :
        /\ via[w] = "spawn" => caller[w] = "none"
        /\ (via[w] = "with" /\ pc[w] = "terminated") =>
              /\ reports # <<>>
              /\ reports[1].thread = w
              /\ caller[w] = IF reports[1].payload = "IntentionalPanic"
                             THEN "returned" ELSE "panicked"
              /\ caller[w] = "panicked" <=> Len(reports) = 2
        /\ (via[w] = "with" /\ pc[w] # "terminated") => caller[w] = "none"

\* The loop under with has unwound with the panic of an unwrap.
C32_Witness ==
    /\ via[1] = "with"
    /\ pc[1] = "terminated"
    /\ reports[1].payload = "other"
    /\ caller[1] = "panicked"

\* C39: a resize_to() call returns the size stored last when a Resized
\* event stored one since the previous call, and none otherwise: every
\* pending resize is returned once, whatever the interleaving of the event
\* thread and the render thread.
C39_ResizeConsumedOnce ==
    \A w \in Windows : \A k \in 1..Len(polled[w]) :
        LET before == IF k = 1 THEN 0 ELSE polled[w][k - 1].stores
            now == polled[w][k].stores
        IN  polled[w][k].ret =
                IF now > before THEN <<stored[w][now]>> ELSE <<>>

\* Two Resized events were stored, a resize_to() call returned the second
\* size and the next call none.
C39_Witness ==
    /\ Len(stored[1]) = 2
    /\ stored[1][1] # stored[1][2]
    /\ Len(polled[1]) = 2
    /\ polled[1][1].ret = <<stored[1][2]>>
    /\ polled[1][2].ret = <<>>

\* ---------------------------------------------------------------- util.rs prefer, queues.rs

\* The most queue families of a physical device.
MaxFamilies == 2

\* The longest supported sequence handed to prefer and prefer_fn.
MaxSupported == 3

\* The longest wanted list handed to prefer.
MaxWanted == 2

\* const QUEUE_LIST_SIZE: the (family, priority) items of a request, one
\* for graphics, compute, transfer and present each.
QUEUE_LIST_SIZE == 4

\* The values prefer and prefer_fn choose among.
Elements == {1, 2, 3}

\* QueueFamily::id
FamilyIds == 1..MaxFamilies

\* The f32 priorities 0.0 and 1.0.
Priorities == {0, 1}

\* The sequences over S of at most n elements.
SeqsUpTo(S, n) == UNION {[1..k -> S] : k \in 0..n}

\* Iterator::find with a predicate that holds of the members of wanted.
Iterator_find(wanted, iter) ==
    IF \E i \in 1..Len(iter) : iter[i] \in wanted
    THEN <<iter[The({i \in 1..Len(iter) :
                       /\ iter[i] \in wanted
                       /\ \A j \in 1..(i - 1) : iter[j] \notin wanted})]>>
    ELSE <<>>

\* (mutant) prefer_fn without the fallback to the first element.
prefer_fn_no_default(wanted, supported, default_to_first) ==
    Iterator_find(wanted, supported)

\* prefer_fn: wanted is the set of the values the predicate holds of.
prefer_fn(wanted, supported, default_to_first) ==
    IF supported = <<>>
    THEN <<>>
    ELSE LET first == Head(supported)
             found == Iterator_find(wanted, Tail(supported))
         IN  IF first \in wanted
             THEN <<first>>
             ELSE IF found # <<>>
                  THEN found
                  ELSE IF default_to_first THEN <<first>> ELSE <<>>

\* Vec::contains
contains(vec, x) == \E i \in 1..Len(vec) : vec[i] = x

\* prefer: wanted is collected into a Vec and looked up with contains.
prefer(wanted, supported, default_to_first) ==
    IF supported = <<>>
    THEN <<>>
    ELSE LET first == Head(supported)
             rest == Tail(supported)
             hits == {i \in 1..Len(rest) : contains(wanted, rest[i])}
         IN  IF contains(wanted, first)
             THEN <<first>>
             ELSE IF hits # {}
                  THEN <<rest[The({i \in hits : \A j \in hits : i <= j})]>>
                  ELSE IF default_to_first THEN <<first>> ELSE <<>>

\* device.queue_families().filter(..): the ids of the families of which the
\* flag holds, in the order of the device.
filter_families(device, flag) ==
    SelectSeq([i \in 1..Len(device) |-> i], LAMBDA i : device[i][flag])

\* The ids of the families of which the flag holds.
families_with(device, flag) == {i \in 1..Len(device) : device[i][flag]}

\* (mutant) only the families that explicitly support transfers are tried.
transfer_family_explicit(device, graphics, compute) ==
    prefer_fn(FamilyIds \ {graphics, compute},
              filter_families(device, "transfers"), TRUE)

\* find_queue_families: the chain that chooses the transfer family.
transfer_family(device, graphics, compute) ==
    LET explicit == prefer_fn(FamilyIds \ {graphics, compute},
                              filter_families(device, "transfers"), TRUE)
        computing == prefer_fn(FamilyIds \ {compute},
                               filter_families(device, "compute"), TRUE)
        drawing == prefer_fn(FamilyIds \ {graphics},
                             filter_families(device, "graphics"), TRUE)
    IN  IF explicit # <<>> THEN explicit
        ELSE IF computing # <<>> THEN computing
        ELSE drawing

\* find_queue_families on a device whose families are given with what each
\* supports; present is surface.is_supported(q).unwrap_or(false).
find_queue_families(device) ==
    LET all == [i \in 1..Len(device) |-> i]
        graphics == prefer_fn(families_with(device, "present"),
                              filter_families(device, "graphics"), TRUE)
        present == IF graphics # <<>> /\ device[graphics[1]].present
                   THEN graphics
                   ELSE Iterator_find(families_with(device, "present"), all)
        dedicated ==
            Iterator_find({i \in 1..Len(device) :
                             device[i].compute /\ ~device[i].graphics}, all)
        compute == IF dedicated # <<>> \/ graphics = <<>>
                   THEN dedicated
                   ELSE prefer_fn(FamilyIds \ {graphics[1]},
                                  filter_families(device, "compute"), TRUE)
        transfer == IF graphics = <<>> \/ compute = <<>>
                    THEN <<>>
                    ELSE transfer_family(device, graphics[1], compute[1])
    IN  IF graphics = <<>> \/ present = <<>> \/ compute = <<>>
        THEN [tag |-> "Err"]
        ELSE IF transfer = <<>>
             THEN [tag |-> "panic"]
             ELSE [tag |-> "Ok", graphics |-> graphics[1],
                   compute |-> compute[1], transfer |-> transfer[1],
                   present |-> present[1]]

\* (mutant) the filter of create_device lets every item through.
unique_queue_families_all(queue_families) == queue_families

\* create_device: the items the filter lets through to Device::new, those
\* whose family id no earlier item has.
unique_queue_families(queue_families) ==
    LET first == SelectSeq([i \in 1..Len(queue_families) |-> i],
                     LAMBDA i : \A j \in 1..(i - 1) :
                         queue_families[j].family # queue_families[i].family)
    IN  [k \in 1..Len(first) |-> queue_families[first[k]]]

\* Device::new: one queue per item it is handed, in order, the n-th item of
\* a family giving queue n - 1 of that family; or the device cannot be made.
Device_new(items, device_ok) ==
    IF device_ok
    THEN [tag |-> "Ok",
          output_queues |->
              [i \in 1..Len(items) |->
                  [family |-> items[i].family,
                   id |-> Cardinality({j \in 1..(i - 1) :
                              items[j].family = items[i].family}),
                   priority |-> items[i].priority]]]
    ELSE [tag |-> "Err"]

\* HashMap::from_iter over (q.family().id(), q): a later queue of a family
\* replaces an earlier one.
output_queues_map(output_queues) ==
    [id \in {output_queues[i].family : i \in 1..Len(output_queues)} |->
        output_queues[The({i \in 1..Len(output_queues) :
            /\ output_queues[i].family = id
            /\ \A j \in (i + 1)..Len(output_queues) :
                   output_queues[j].family # id})]]

\* QueueList::from_iter: four unwraps and the assert that nothing is left.
QueueList_from_iter(iter) ==
    IF Len(iter) = QUEUE_LIST_SIZE
    THEN [tag |-> "Ok", graphics |-> iter[1], compute |-> iter[2],
          transfer |-> iter[3], present |-> iter[4]]
    ELSE [tag |-> "panic"]

\* create_device; passed records what Device::new was handed.
create_device(queue_families, device_ok) ==
    LET families == [i \in 1..Len(queue_families) |->
                        queue_families[i].family]
        passed == unique_queue_families(queue_families)
        made == Device_new(passed, device_ok)
    IN  IF made.tag = "Err"
        THEN [tag |-> "Err", passed |-> passed]
        ELSE LET map == output_queues_map(made.output_queues)
             IN  [tag |-> "Ok", passed |-> passed,
                  queues |-> [i \in 1..Len(families) |-> map[families[i]]]]

\* What a queue family supports.
Family == [graphics : BOOLEAN, compute : BOOLEAN, transfers : BOOLEAN,
           present : BOOLEAN]

\* The calls of this specification with their arguments.
QueueCalls ==
    {[fn |-> "prefer_fn", wanted_fn |-> w, supported |-> s,
      default_to_first |-> d] :
        w \in SUBSET Elements, s \in SeqsUpTo(Elements, MaxSupported),
        d \in BOOLEAN}
    \cup {[fn |-> "prefer", wanted |-> w, supported |-> s,
           default_to_first |-> d] :
        w \in SeqsUpTo(Elements, MaxWanted),
        s \in SeqsUpTo(Elements, MaxSupported), d \in BOOLEAN}
    \cup {[fn |-> "find_queue_families", device |-> dev] :
        dev \in SeqsUpTo(Family, MaxFamilies)}
    \cup {[fn |-> "create_device", queue_families |-> q, device_ok |-> ok] :
        q \in SeqsUpTo([family : FamilyIds, priority : Priorities],
                       QUEUE_LIST_SIZE),
        ok \in BOOLEAN}

InitQueues ==
    /\ qcall \in QueueCalls
    /\ qret = <<>>
    /\ NoAudio
    /\ NoSource
    /\ NoStart
    /\ NoProc
    /\ NoWin
    /\ NoKeys

PreferFn ==
    /\ qcall.fn = "prefer_fn"
    /\ qret = <<>>
    /\ qret' = <<[ret |-> prefer_fn(qcall.wanted_fn, qcall.supported,
                                    qcall.default_to_first)]>>
    /\ UNCHANGED <<qcall, mixerVars, sinkVars, sharedVars, sourceVars,
                   startVars, procVars, winVars, keyVars>>

Prefer ==
    /\ qcall.fn = "prefer"
    /\ qret = <<>>
    /\ qret' = <<[ret |-> prefer(qcall.wanted, qcall.supported,
                                 qcall.default_to_first)]>>
    /\ UNCHANGED <<qcall, mixerVars, sinkVars, sharedVars, sourceVars,
                   startVars, procVars, winVars, keyVars>>

FindQueueFamilies ==
    /\ qcall.fn = "find_queue_families"
    /\ qret = <<>>
    /\ qret' = <<find_queue_families(qcall.device)>>
    /\ UNCHANGED <<qcall, mixerVars, sinkVars, sharedVars, sourceVars,
                   startVars, procVars, winVars, keyVars>>

\* create_device and, when it returns Ok, Queues::from_iter on its queues.
CreateDevice ==
    /\ qcall.fn = "create_device"
    /\ qret = <<>>
    /\ \E r \in {create_device(qcall.queue_families, qcall.device_ok)} :
           qret' = <<[made |-> r,
                      list |-> IF r.tag = "Ok"
                               THEN QueueList_from_iter(r.queues)
                               ELSE [tag |-> "none"]]>>
    /\ UNCHANGED <<qcall, mixerVars, sinkVars, sharedVars, sourceVars,
                   startVars, procVars, winVars, keyVars>>

NextQueues ==
    \/ PreferFn
    \/ Prefer
    \/ FindQueueFamilies
    \/ CreateDevice

SpecQueues == InitQueues /\ [][NextQueues]_vars

\* ---------------------------------------------------------------- C33, C34, C35

\* The call under way has returned.
Returned(fn) == qcall # <<>> /\ qcall.fn = fn /\ qret # <<>>

\* The family ids the request names.
Requested == {qcall.queue_families[i].family :
                  i \in 1..Len(qcall.queue_families)}

C34_TransferSelectionNeverFails ==
    Returned("find_queue_families") =>
        LET device == qcall.device
            has(flag) == \E i \in 1..Len(device) : device[i][flag]
        IN  /\ qret[1].tag # "panic"
            /\ has("graphics") /\ has("present") /\ has("compute") =>
                   /\ qret[1].tag = "Ok"
                   /\ qret[1].transfer \in 1..Len(device)

\* No family explicitly supports transfers and the call returned Ok.
C34_Witness ==
    /\ Returned("find_queue_families")
    /\ qret[1].tag = "Ok"
    /\ \A i \in 1..Len(qcall.device) : ~qcall.device[i].transfers
    /\ qret[1].graphics # qret[1].compute

\* What the specification says prefer_fn and prefer return, wanted being
\* the set of the wanted values.
Preferred(wanted, supported, default_to_first) ==
    LET hits == {i \in 1..Len(supported) : supported[i] \in wanted}
    IN  IF Len(supported) = 0
        THEN <<>>
        ELSE IF hits # {}
             THEN <<supported[The({i \in hits : \A j \in hits : i <= j})]>>
             ELSE IF default_to_first THEN <<supported[1]>> ELSE <<>>

\* C35: prefer_fn returns None for an empty supported, else the first
\* element of supported that is wanted, else the first element when
\* default_to_first and None otherwise; prefer returns the same for the
\* wanted values given as a list.
C35_PreferReturnsFirstWanted ==
    /\ Returned("prefer_fn") =>
           qret[1].ret = Preferred(qcall.wanted_fn, qcall.supported,
                                   qcall.default_to_first)
    /\ Returned("prefer") =>
           qret[1].ret =
               Preferred({qcall.wanted[i] : i \in 1..Len(qcall.wanted)},
                         qcall.supported, qcall.default_to_first)

\* prefer_fn fell back to the first of several elements: none of them is
\* wanted and default_to_first holds.
C35_Witness ==
    /\ Returned("prefer_fn")
    /\ Len(qcall.supported) >= 2
    /\ \A i \in 1..Len(qcall.supported) :
           qcall.supported[i] \notin qcall.wanted_fn
    /\ qcall.default_to_first
    /\ qret[1].ret = <<qcall.supported[1]>>

\* ---------------------------------------------------------------- input.rs KeyState

\* Slots of state_map (64 in input.rs) and bits of state and old_state.
MaxSlots == 2

\* Threads that bind and drop an InputBinding.
MaxBinders == 2

Slots == 0..(MaxSlots - 1)
Binders == 1..MaxBinders

\* InputID::None and InputID::Key(scancode)
InputID_None == [tag |-> "None", code |-> 0]
InputID_Key(scancode) == [tag |-> "Key", code |-> scancode]

\* Hashed32<Option<DeviceId>>: None, the default, stands for any device.
any_device == <<>>

\* Input::new, and Input::default(), the content of an empty slot.
Input(input_id, device) == [input_id |-> input_id, device |-> device]
Input_default == Input(InputID_None, any_device)

\* The inputs bound and set: two keys of any device, one of them also of a
\* given device.
Inputs ==
    {Input(InputID_Key(1), any_device), Input(InputID_Key(1), <<1>>),
     Input(InputID_Key(2), any_device)}

\* impl PartialEq for Input
Input_eq(self, other) ==
    /\ self.input_id = other.input_id
    /\ \/ self.device = other.device
       \/ self.device = any_device
       \/ other.device = any_device

\* 1u64.wrapping_shl(index): the shift is taken modulo the 64 bits.
pointer(index) == 2 ^ (index % 64)

\* word & pointer != 0, for a pointer of one bit.
bit_and(word, ptr) == (word \div ptr) % 2 = 1

\* AtomicU64::fetch_or(pointer) and fetch_and(!pointer): the new value.
fetch_or(word, ptr) == IF bit_and(word, ptr) THEN word ELSE word + ptr
fetch_and_not(word, ptr) == IF bit_and(word, ptr) THEN word - ptr ELSE word

\* KeyState::get
get(word, index) == bit_and(word, pointer(index))

\* KeyState::pressed, down and released, of the words old_state and state.
pressed(old, new, index) == ~get(old, index) /\ get(new, index)
down(new, index) == get(new, index)
released(old, new, index) == get(old, index) /\ ~get(new, index)

\* state_map.iter().enumerate().find(|(_, x)| x.load() == input): the index
\* as an Option.
find_slot(map, input) ==
    LET hits == {i \in Slots : Input_eq(map[i], input)}
    IN  IF hits = {} THEN <<>>
        ELSE <<The({i \in hits : \A j \in hits : i <= j})>>

\* A thread that holds no binding and is in no call.
Idle == [pc |-> "idle", index |-> 0, input |-> Input_default]

InitKeys ==
    /\ state_map = [i \in Slots |-> Input_default]
    /\ state = 0
    /\ old_state = 0
    /\ binder = [b \in Binders |-> Idle]
    /\ setter = [pc |-> "idle", index |-> 0, pressed |-> FALSE]
    /\ updater = [pc |-> "idle", loaded |-> 0, updates |-> 0]
    /\ since = FALSE
    /\ NoAudio
    /\ NoSource
    /\ NoStart
    /\ NoProc
    /\ NoWin
    /\ NoQueue

\* InputBinding::new, KeyState::add: the find and its unwrap.
AddFind(b, input) ==
    /\ binder[b].pc = "idle"
    /\ \E slot \in {find_slot(state_map, Input_default)} :
           binder' = [binder EXCEPT ![b] =
               IF slot = <<>>
               THEN [pc |-> "panicked", index |-> 0, input |-> input]
               ELSE [pc |-> "found", index |-> slot[1], input |-> input]]
    /\ UNCHANGED <<state_map, state, old_state, setter, updater, since,
                   mixerVars, sinkVars, sharedVars, sourceVars, startVars,
                   procVars, winVars, queueVars>>

\* KeyState::add: slot.store(input); add returns and the InputBinding is
\* made with the index.
AddStore(b) ==
    /\ binder[b].pc = "found"
    /\ state_map' = [state_map EXCEPT ![binder[b].index] = binder[b].input]
    /\ binder' = [binder EXCEPT ![b].pc = "bound"]
    /\ UNCHANGED <<state, old_state, setter, updater, since,
                   mixerVars, sinkVars, sharedVars, sourceVars, startVars,
                   procVars, winVars, queueVars>>

\* Drop for InputBinding, KeyState::remove: state.fetch_and(!pointer).
RemoveState(b) ==
    /\ binder[b].pc = "bound"
    /\ state' = fetch_and_not(state, pointer(binder[b].index))
    /\ since' = TRUE
    /\ binder' = [binder EXCEPT ![b].pc = "remove_old"]
    /\ UNCHANGED <<state_map, old_state, setter, updater,
                   mixerVars, sinkVars, sharedVars, sourceVars, startVars,
                   procVars, winVars, queueVars>>

\* KeyState::remove: old_state.fetch_and(!pointer).
RemoveOld(b) ==
    /\ binder[b].pc = "remove_old"
    /\ old_state' = fetch_and_not(old_state, pointer(binder[b].index))
    /\ binder' = [binder EXCEPT ![b].pc = "remove_map"]
    /\ UNCHANGED <<state_map, state, setter, updater, since,
                   mixerVars, sinkVars, sharedVars, sourceVars, startVars,
                   procVars, winVars, queueVars>>

\* KeyState::remove: state_map[index].store(Default::default()); the
\* binding is gone.
RemoveMap(b) ==
    /\ binder[b].pc = "remove_map"
    /\ state_map' = [state_map EXCEPT ![binder[b].index] = Input_default]
    /\ binder' = [binder EXCEPT ![b] = Idle]
    /\ UNCHANGED <<state, old_state, setter, updater, since,
                   mixerVars, sinkVars, sharedVars, sourceVars, startVars,
                   procVars, winVars, queueVars>>

\* KeyState::set: the find; with no slot of the input set returns.
SetFind(input, down_) ==
    /\ setter.pc = "idle"
    /\ \E slot \in {find_slot(state_map, input)} :
           setter' = IF slot = <<>>
                     THEN setter
                     ELSE [pc |-> "found", index |-> slot[1],
                           pressed |-> down_]
    /\ UNCHANGED <<state_map, state, old_state, binder, updater, since,
                   mixerVars, sinkVars, sharedVars, sourceVars, startVars,
                   procVars, winVars, queueVars>>

\* KeyState::set: state.fetch_or(pointer) or state.fetch_and(!pointer).
SetWrite ==
    /\ setter.pc = "found"
    /\ state' = IF setter.pressed
                THEN fetch_or(state, pointer(setter.index))
                ELSE fetch_and_not(state, pointer(setter.index))
    /\ since' = TRUE
    /\ setter' = [pc |-> "idle", index |-> 0, pressed |-> FALSE]
    /\ UNCHANGED <<state_map, old_state, binder, updater,
                   mixerVars, sinkVars, sharedVars, sourceVars, startVars,
                   procVars, winVars, queueVars>>

\* KeyState::update: let state = self.state.load(Acquire).
UpdateLoad ==
    /\ updater.pc = "idle"
    /\ updater' = [pc |-> "loaded", loaded |-> state, updates |-> 0]
    /\ since' = FALSE
    /\ UNCHANGED <<state_map, state, old_state, binder, setter,
                   mixerVars, sinkVars, sharedVars, sourceVars, startVars,
                   procVars, winVars, queueVars>>

\* KeyState::update: self.old_state.store(state, Release).
UpdateStore ==
    /\ updater.pc = "loaded"
    /\ old_state' = updater.loaded
    /\ updater' = [pc |-> "idle", loaded |-> updater.loaded, updates |-> 1]
    /\ UNCHANGED <<state_map, state, binder, setter, since,
                   mixerVars, sinkVars, sharedVars, sourceVars, startVars,
                   procVars, winVars, queueVars>>

NextKeys ==
    \/ \E b \in Binders, input \in Inputs : AddFind(b, input)
    \/ \E b \in Binders : AddStore(b)
    \/ \E b \in Binders : RemoveState(b)
    \/ \E b \in Binders : RemoveOld(b)
    \/ \E b \in Binders : RemoveMap(b)
    \/ \E input \in Inputs, down_ \in BOOLEAN : SetFind(input, down_)
    \/ SetWrite
    \/ UpdateLoad
    \/ UpdateStore

SpecKeys == InitKeys /\ [][NextKeys]_vars

\* ---------------------------------------------------------------- C36, C37

\* The thread holds an InputBinding: add has returned, drop has not begun.
Holds(b) == binder[b].pc = "bound"

\* C36: no two live InputBindings have the same index.
C36_BindingsOwnDistinctSlots ==
    \A a \in Binders : \A b \in Binders :
        a # b /\ Holds(a) /\ Holds(b) => binder[a].index # binder[b].index

\* The slot holds Input::default(): no add has stored to it since the last
\* remove of it completed, if any.
Empty(i) == Input_eq(state_map[i], Input_default)

\* C37: the bit of an empty slot is 0 in state and in old_state, so that a
\* binding placed in the slot starts as not down.
C37_EmptySlotHasClearBits ==
    \A i \in Slots : Empty(i) => ~get(state, i) /\ ~get(old_state, i)

\* ---------------------------------------------------------------- C38

\* The sum of the bits of the slots of S.
RECURSIVE Weight(_)
Weight(S) ==
    IF S = {} THEN 0
    ELSE LET i == CHOOSE x \in S : TRUE IN 2 ^ i + Weight(S \ {i})

\* The slots whose bit is set in the word.
BitsOf(word) == The({S \in SUBSET Slots : Weight(S) = word})

\* A live InputBinding holds the slot.
Bound(i) == \E b \in Binders : Holds(b) /\ binder[b].index = i

\* The update the main thread last began has completed, and state was not
\* written since its load.
Updated == updater.pc = "idle" /\ updater.updates = 1 /\ ~since

\* C38: of a bound slot, pressed holds exactly when its bit is clear in
\* old_state and set in state, released exactly when it is set in old_state
\* and clear in state; after an update with no write to state since its
\* load, no bound slot is pressed or released and down is what it was.
C38_PressedReleasedAndUpdate ==
    /\ \A i \in Slots : Bound(i) =>
           /\ pressed(old_state, state, i) <=>
                  i \notin BitsOf(old_state) /\ i \in BitsOf(state)
           /\ released(old_state, state, i) <=>
                  i \in BitsOf(old_state) /\ i \notin BitsOf(state)
           /\ down(state, i) <=> i \in BitsOf(state)
    /\ Updated =>
           \A i \in Slots : Bound(i) =>
               /\ ~pressed(old_state, state, i)
               /\ ~released(old_state, state, i)
               /\ down(state, i) <=> down(updater.loaded, i)

====
